---------------------------- MODULE Spec2Model ----------------------------
(***************************************************************************)
(* A model of the connect-four engine of rusty_connect_four:               *)
(* src/src/game_engine (board, win check, board state, transposition       *)
(* table, layer generator, tree size, alpha-beta search, game manager).    *)
(*                                                                         *)
(* Columns and rows are numbered from 0 as in the source; a column c of a  *)
(* board array is element c + 1 of the corresponding TLA+ sequence.        *)
(* A reference-counted cell Rc<RefCell<BoardState>> is a natural number    *)
(* (its allocation); "nodes" maps the allocations that still have a strong *)
(* holder to their contents, and the table keeps allocations of dropped    *)
(* cells as dead weak references.                                          *)
(***************************************************************************)
EXTENDS Integers, Sequences, FiniteSets, TLC

(***************************************************************************)
(* Program constants.                                                      *)
(***************************************************************************)
NUMBER_TO_WIN == 4

BOARD_HEIGHT == 6

BOARD_WIDTH == 7

SCALING_HEURISTIC == 10

IDEAL_COLUMNS_FIRST == <<3, 4, 2, 5, 1, 6, 0>>

\* isize::MAX and isize::MIN, scaled to 32 bits (the width of isize on wasm32):
\* only their order, their sign and MIN = -MAX - 1 matter to the search.
ISIZE_MAX == 2147483647

ISIZE_MIN == (0 - ISIZE_MAX) - 1

Columns == 0 .. (BOARD_WIDTH - 1)

Rows == 0 .. (BOARD_HEIGHT - 1)

Min2(a, b) == IF a < b THEN a ELSE b

Max2(a, b) == IF a > b THEN a ELSE b

RECURSIVE Pow(_, _)
Pow(b, e) == IF e = 0 THEN 1 ELSE b * Pow(b, e - 1)

Reverse(s) == [i \in 1 .. Len(s) |-> s[Len(s) + 1 - i]]

(***************************************************************************)
(* Board (board.rs)                                                        *)
(***************************************************************************)
DefaultBoard ==
    [column_heights |-> [i \in 1 .. BOARD_WIDTH |-> 0],
     column_bitmaps |-> [i \in 1 .. BOARD_WIDTH |-> 0]]

\* Result<bool, OutOfBounds>
OutOfBounds == [ok |-> FALSE, val |-> FALSE]

Ok(v) == [ok |-> TRUE, val |-> v]

get_height(board, col) == board.column_heights[col + 1]

get_piece(board, col, row) ==
    IF row < get_height(board, col)
    THEN Ok(((board.column_bitmaps[col + 1] \div Pow(2, row)) % 2) # 0)
    ELSE OutOfBounds

\* Result<(), FullColumn>: ok = FALSE is Err(FullColumn), the board untouched.
\* drop_piece without the check of the column's height.
drop_piece_unchecked(board, col, color) ==
    [ok |-> TRUE,
     board |->
        [column_heights |->
            [board.column_heights EXCEPT ![col + 1] = @ + 1],
         column_bitmaps |->
            [board.column_bitmaps EXCEPT ![col + 1] =
                @ + (IF color THEN 1 ELSE 0) * Pow(2, get_height(board, col))]]]

\* drop_piece that sets the bit one position above the piece.
drop_piece_bit_above(board, col, color) ==
    LET col_height == get_height(board, col)
    IN  IF col_height < BOARD_HEIGHT
        THEN [ok |-> TRUE,
              board |->
                [column_heights |->
                    [board.column_heights EXCEPT ![col + 1] = col_height + 1],
                 column_bitmaps |->
                    [board.column_bitmaps EXCEPT ![col + 1] =
                        @ + (IF color THEN 1 ELSE 0) * Pow(2, col_height + 1)]]]
        ELSE [ok |-> FALSE, board |-> board]

drop_piece(board, col, color) ==
    LET col_height == get_height(board, col)
    IN  IF col_height < BOARD_HEIGHT
        THEN [ok |-> TRUE,
              board |->
                [column_heights |->
                    [board.column_heights EXCEPT ![col + 1] = col_height + 1],
                 column_bitmaps |->
                    [board.column_bitmaps EXCEPT ![col + 1] =
                        @ + (IF color THEN 1 ELSE 0) * Pow(2, col_height)]]]
        ELSE [ok |-> FALSE, board |-> board]

RECURSIVE MaxOver(_, _)
MaxOver(s, i) ==
    IF i > Len(s) THEN 0 ELSE Max2(s[i], MaxOver(s, i + 1))

get_max_height(board) == MaxOver(board.column_heights, 1)

is_full(board) == \A col \in Columns : get_height(board, col) = BOARD_HEIGHT

\* The byte sequences fed to the hasher.
iter(board) == board.column_heights \o board.column_bitmaps

flipped_iter(board) ==
    Reverse(board.column_heights) \o Reverse(board.column_bitmaps)

flip(board) ==
    [column_heights |-> Reverse(board.column_heights),
     column_bitmaps |-> Reverse(board.column_bitmaps)]

\* arrays[1] is the first row of the array literal; rows are consumed last
\* to first, each row left to right.  A piece that does not fit is an unwrap
\* of Err(FullColumn); no array of BOARD_HEIGHT rows can overfill a column.
RECURSIVE from_arrays_row(_, _, _)
from_arrays_row(row, c, board) ==
    IF c > BOARD_WIDTH THEN board
    ELSE LET piece == row[c]
             filled == IF piece = 1 THEN drop_piece(board, c - 1, FALSE).board
                       ELSE IF piece = 2 THEN drop_piece(board, c - 1, TRUE).board
                       ELSE board
         IN  IF filled.column_heights[c] >= 0
             THEN from_arrays_row(row, c + 1, filled)
             ELSE board

RECURSIVE from_arrays_rows(_, _, _)
from_arrays_rows(arrays, r, board) ==
    IF r < 1 THEN board
    ELSE LET filled == from_arrays_row(arrays[r], 1, board)
         IN  IF filled.column_heights[1] >= 0
             THEN from_arrays_rows(arrays, r - 1, filled)
             ELSE board

\* from_arrays consuming the rows first to last.
from_arrays_first_row_first(arrays) ==
    from_arrays_rows(Reverse(arrays), BOARD_HEIGHT, DefaultBoard)

from_arrays(arrays) == from_arrays_rows(arrays, BOARD_HEIGHT, DefaultBoard)

to_arrays(board) ==
    [i \in 1 .. BOARD_HEIGHT |->
        [j \in 1 .. BOARD_WIDTH |->
            LET piece == get_piece(board, j - 1, BOARD_HEIGHT - i)
            IN  IF piece.ok THEN (IF piece.val THEN 1 ELSE 0) + 1 ELSE 0]]

(***************************************************************************)
(* Strip iterators (board_iters.rs).  A strip is the sequence of pieces    *)
(* its iterator yields; the sequence of strips is in iteration order.      *)
(***************************************************************************)
HorizontalIter(board, row) ==
    [i \in 1 .. BOARD_WIDTH |-> get_piece(board, i - 1, row)]

horizontal_strip_iter(board) ==
    [r \in 1 .. get_max_height(board) |-> HorizontalIter(board, r - 1)]

VerticalIter(board, max_height, col) ==
    [i \in 1 .. max_height |-> get_piece(board, col, i - 1)]

RECURSIVE VerticalStrips(_, _, _)
VerticalStrips(board, col, full) ==
    IF col >= BOARD_WIDTH THEN << >>
    ELSE LET col_height == get_height(board, col)
         IN  IF col_height = 0 \/ (~full /\ col_height < NUMBER_TO_WIN)
             THEN VerticalStrips(board, col + 1, full)
             ELSE LET h == IF full
                           THEN Min2(col_height + NUMBER_TO_WIN - 1, BOARD_HEIGHT)
                           ELSE col_height
                  IN  <<VerticalIter(board, h, col)>>
                          \o VerticalStrips(board, col + 1, full)

\* vertical_strip_iter that stops at the top piece also when full is asked.
vertical_strip_iter_to_top_piece(board, full) == VerticalStrips(board, 0, FALSE)

vertical_strip_iter(board, full) == VerticalStrips(board, 0, full)

DiagonalMaxHeight(board, full) ==
    IF full
    THEN Min2(get_max_height(board) + NUMBER_TO_WIN - 1, BOARD_HEIGHT)
    ELSE get_max_height(board)

DiagonalStartingRow(max_height) == Max2(max_height - NUMBER_TO_WIN, 0)

UpwardDiagonalIter(board, max_height, col, row) ==
    [i \in 1 .. Max2(Min2(max_height - row, BOARD_WIDTH - col), 0) |->
        get_piece(board, col + i - 1, row + i - 1)]

RECURSIVE UpwardStrips(_, _, _, _, _)
UpwardStrips(board, max_height, col, row, full) ==
    IF col + NUMBER_TO_WIN > BOARD_WIDTH \/ (~full /\ max_height < NUMBER_TO_WIN)
    THEN << >>
    ELSE <<UpwardDiagonalIter(board, max_height, col, row)>>
            \o (IF row > 0
                THEN UpwardStrips(board, max_height, col, row - 1, full)
                ELSE UpwardStrips(board, max_height, col + 1, row, full))

upward_diagonal_strip_iter(board, full) ==
    LET max_height == DiagonalMaxHeight(board, full)
    IN  UpwardStrips(board, max_height, 0, DiagonalStartingRow(max_height), full)

\* col is one past the column of the first piece, as in the source.
DownwardDiagonalIter(board, max_height, col, row) ==
    [i \in 1 .. Max2(Min2(max_height - row, col), 0) |->
        get_piece(board, col - i, row + i - 1)]

RECURSIVE DownwardStrips(_, _, _, _, _)
DownwardStrips(board, max_height, col, row, full) ==
    IF col < NUMBER_TO_WIN \/ (~full /\ max_height < NUMBER_TO_WIN)
    THEN << >>
    ELSE <<DownwardDiagonalIter(board, max_height, col, row)>>
            \o (IF row > 0
                THEN DownwardStrips(board, max_height, col, row - 1, full)
                ELSE DownwardStrips(board, max_height, col - 1, row, full))

\* downward_diagonal_strip_iter walking the upward diagonals once more.
downward_diagonal_strip_iter_as_upward(board, full) ==
    upward_diagonal_strip_iter(board, full)

downward_diagonal_strip_iter(board, full) ==
    LET max_height == DiagonalMaxHeight(board, full)
    IN  DownwardStrips(board, max_height, BOARD_WIDTH,
                       DiagonalStartingRow(max_height), full)

(***************************************************************************)
(* Win detection (win_check.rs)                                            *)
(***************************************************************************)
increment_if_matching(in_a_row, piece, color) ==
    IF piece.ok
    THEN (IF piece.val = color THEN in_a_row + 1 ELSE 0)
    ELSE 0

\* has_color_won looking at columns and diagonals only when pieces are
\* stacked more than four high.
has_color_won_gated_above_four(board, color) ==
    LET four_in(strips) ==
            \E k \in 1 .. Len(strips) :
                \E i \in 1 .. Len(strips[k]) - NUMBER_TO_WIN + 1 :
                    \A j \in i .. i + NUMBER_TO_WIN - 1 : strips[k][j] = Ok(color)
    IN  \/ four_in(horizontal_strip_iter(board))
        \/ /\ get_max_height(board) > NUMBER_TO_WIN
           /\ \/ four_in(vertical_strip_iter(board, FALSE))
              \/ four_in(upward_diagonal_strip_iter(board, FALSE))
              \/ four_in(downward_diagonal_strip_iter(board, FALSE))

\* One strip of check_strips: TRUE when four in a row are met before the
\* early break.
RECURSIVE check_strip(_, _, _, _)
check_strip(strip, i, in_a_row, color) ==
    IF i > Len(strip) THEN FALSE
    ELSE LET n == increment_if_matching(in_a_row, strip[i], color)
         IN  IF n = NUMBER_TO_WIN THEN TRUE
             ELSE IF n + (Len(strip) - i) < NUMBER_TO_WIN THEN FALSE
             ELSE check_strip(strip, i + 1, n, color)

check_strips(strips, color) ==
    \E k \in 1 .. Len(strips) : check_strip(strips[k], 1, 0, color)

has_color_won_horizontally(board, color) ==
    check_strips(horizontal_strip_iter(board), color)

has_color_won_vertically(board, color) ==
    check_strips(vertical_strip_iter(board, FALSE), color)

has_color_won_upward_diagonally(board, color) ==
    check_strips(upward_diagonal_strip_iter(board, FALSE), color)

has_color_won_downward_diagonally(board, color) ==
    check_strips(downward_diagonal_strip_iter(board, FALSE), color)

has_color_won(board, color) ==
    LET highest_row == get_max_height(board)
    IN  IF has_color_won_horizontally(board, color) THEN TRUE
        ELSE IF highest_row >= NUMBER_TO_WIN
        THEN has_color_won_vertically(board, color)
                \/ has_color_won_upward_diagonally(board, color)
                \/ has_color_won_downward_diagonally(board, color)
        ELSE FALSE

\* is_game_over looking at the full board before the four in a row.
is_game_over_tie_first(board, turn) ==
    IF is_full(board) THEN "Tie"
    ELSE IF has_color_won(board, ~turn)
    THEN (IF ~turn THEN "TwoWins" ELSE "OneWins")
    ELSE "NoWin"

\* GameOver: "NoWin", "Tie", "OneWins", "TwoWins".
is_game_over(board, turn) ==
    IF has_color_won(board, ~turn)
    THEN (IF ~turn THEN "TwoWins" ELSE "OneWins")
    ELSE IF is_full(board) THEN "Tie"
    ELSE "NoWin"

(***************************************************************************)
(* Heuristic (heuristics.rs)                                               *)
(***************************************************************************)
\* The piece counts [false pieces, true pieces] that CircleBuffer yields for
\* the window starting at element i of the strip.
CountIn(strip, i, color) ==
    Cardinality({k \in i .. Min2(i + NUMBER_TO_WIN - 1, Len(strip)) :
                    strip[k].ok /\ strip[k].val = color})

RECURSIVE score_windows(_, _)
score_windows(strip, i) ==
    LET false_pieces == CountIn(strip, i, FALSE)
        true_pieces == CountIn(strip, i, TRUE)
        here == IF false_pieces > 0 /\ true_pieces = 0
                THEN 0 - Pow(SCALING_HEURISTIC, false_pieces - 1)
                ELSE IF true_pieces > 0 /\ false_pieces = 0
                THEN Pow(SCALING_HEURISTIC, true_pieces - 1)
                ELSE 0
    IN  IF i + NUMBER_TO_WIN > Len(strip) THEN here
        ELSE here + score_windows(strip, i + 1)

score_circle_buffer(strip) == score_windows(strip, 1)

RECURSIVE SumStrips(_, _)
SumStrips(strips, k) ==
    IF k > Len(strips) THEN 0
    ELSE score_circle_buffer(strips[k]) + SumStrips(strips, k + 1)

score_by_closeness_to_win(board) ==
    SumStrips(horizontal_strip_iter(board), 1)
        + SumStrips(vertical_strip_iter(board, TRUE), 1)
        + SumStrips(upward_diagonal_strip_iter(board, TRUE), 1)
        + SumStrips(downward_diagonal_strip_iter(board, TRUE), 1)

how_good_is_board(board) == score_by_closeness_to_win(board)

(***************************************************************************)
(* Model bounds.                                                           *)
(***************************************************************************)
\* Largest x passed to try_generate_x_states.
MaxX == 3

\* Largest column number passed to make_move (7 and above are not columns).
MaxCol == 7

\* The manager is not called any more once this many cells have been
\* allocated (keeps the tree of the empty board finite).
MaxAlloc == 10

(***************************************************************************)
(* State                                                                   *)
(***************************************************************************)
VARIABLES
    nodes,                \* live Rc<RefCell<BoardState>> cells: allocation -> BoardState
    table,                \* LayerGenerator.table: hash key -> allocation (Weak)
    alloc,                \* the next allocation
    board_state,          \* GameManager.board_state: the root cell
    generation_1,         \* LayerGenerator.generation_1
    generation_2,         \* LayerGenerator.generation_2
    generation_1_is_new,  \* LayerGenerator.generation_1_is_new
    held,                 \* the cells a direct client of the table holds handles to
    panic,                \* "none", or the panic that aborted the program
    ret,                  \* the last call and what it returned
    app                   \* the application around the manager (main.rs)

vars == <<nodes, table, alloc, board_state, generation_1, generation_2,
          generation_1_is_new, held, panic, ret, app>>

\* No application: the manager is used directly.
NoApp == << >>

(***************************************************************************)
(* BoardState (board_state.rs)                                             *)
(***************************************************************************)
RolloutResultsDefault == [success |-> 0, total |-> 0]

\* BoardState::new recording the turn of the player who moved last.
BoardStateNew_other_turn(board, turn) ==
    [board |-> board,
     children |-> << >>,
     turn |-> ~turn,
     game_over |-> is_game_over(board, turn),
     rollout_results |-> RolloutResultsDefault]

BoardStateNew(board, turn) ==
    [board |-> board,
     children |-> << >>,
     turn |-> turn,
     game_over |-> is_game_over(board, turn),
     rollout_results |-> RolloutResultsDefault]

BoardStateDefault ==
    [board |-> DefaultBoard,
     children |-> << >>,
     turn |-> FALSE,
     game_over |-> "NoWin",
     rollout_results |-> RolloutResultsDefault]

IsFlippedFlip(f) == IF f = "Normal" THEN "Flipped" ELSE "Normal"

\* parent_flipped toggling the flag and keeping the column.
parent_flipped_keeping_column(child) ==
    [child EXCEPT !.is_flipped = IF @ = "Flipped" THEN "Normal" ELSE "Flipped"]

\* ChildState::parent_flipped
parent_flipped(child) ==
    [child EXCEPT !.last_move = 6 - child.last_move,
                  !.is_flipped = IsFlippedFlip(child.is_flipped)]

\* The sum of s[lo .. hi].
RECURSIVE SumRange(_, _, _)
SumRange(s, lo, hi) ==
    IF lo > hi THEN 0
    ELSE IF lo = hi THEN s[lo]
    ELSE SumRange(s, lo, (lo + hi) \div 2) + SumRange(s, (lo + hi) \div 2 + 1, hi)

get_depth_of(board) ==
    SumRange([c \in 1 .. BOARD_WIDTH |-> get_height(board, c - 1)], 1, BOARD_WIDTH)

get_depth(bs) == get_depth_of(bs.board)

(***************************************************************************)
(* Transposition table (transposition.rs).  The hasher is taken to be      *)
(* injective on the byte sequences it is fed, so a key is the sequence.    *)
(***************************************************************************)
normal_hash(board) == iter(board)

flipped_hash(board) == flipped_iter(board)

get_transposed(tbl, board) ==
    LET normal == normal_hash(board)
        flipped == flipped_hash(board)
    IN  IF normal \in DOMAIN tbl
        THEN [found |-> TRUE, value |-> tbl[normal], is_flipped |-> "Normal"]
        ELSE IF flipped \in DOMAIN tbl
        THEN [found |-> TRUE, value |-> tbl[flipped], is_flipped |-> "Flipped"]
        ELSE [found |-> FALSE, value |-> 0, is_flipped |-> "Normal"]

TableInsert(tbl, key, value) ==
    [k \in (DOMAIN tbl) \cup {key} |-> IF k = key THEN value ELSE tbl[k]]

\* Weak::upgrade succeeds exactly on the cells that still have a strong holder.
Upgrades(h, id) == id \in DOMAIN h.nodes

\* h = [nodes, table, alloc, panic]: the cells, the table, the allocator and
\* the panic raised so far ("none" when there is none).
get_board_state(h, board, turn) ==
    LET t == get_transposed(h.table, board)
    IN  IF t.found /\ Upgrades(h, t.value)
        THEN [h |-> IF h.nodes[t.value].turn # turn
                    THEN [h EXCEPT !.panic = "turn_assert"]
                    ELSE h,
              state |-> t.value,
              is_flipped |-> t.is_flipped]
        ELSE LET id == h.alloc
                 bs == BoardStateNew(board, turn)
             IN  [h |-> [h EXCEPT
                           !.nodes = [n \in (DOMAIN h.nodes) \cup {id} |->
                                        IF n = id THEN bs ELSE h.nodes[n]],
                           !.table = TableInsert(h.table, normal_hash(bs.board), id),
                           !.alloc = id + 1],
                  state |-> id,
                  is_flipped |-> "Normal"]

\* clean dropping every entry, live or not.
clean_everything(tbl, live) == [k \in {} |-> tbl[k]]

\* TranspositionStateTable::clean
clean(tbl, live) == [k \in {k \in DOMAIN tbl : tbl[k] \in live} |-> tbl[k]]

(***************************************************************************)
(* BoardState::generate_children                                           *)
(***************************************************************************)
\* self.children.push(ChildState::new(state, col, is_flipped)), on the cells
\* left by the table's get_board_state (r).
\* generate_children storing every edge as Normal.
generate_children_push_as_normal(id, col, r) ==
    [r.h EXCEPT !.nodes[id].children =
        Append(@, [state |-> r.state, last_move |-> col,
                   is_flipped |-> "Normal"])]

generate_children_push(id, col, r) ==
    [r.h EXCEPT !.nodes[id].children =
        Append(@, [state |-> r.state, last_move |-> col,
                   is_flipped |-> r.is_flipped])]

RECURSIVE generate_children_loop(_, _, _)
\* One column of the loop: dropped is the result of drop_piece on a copy of
\* the board.
generate_children_col(h, id, i, col, dropped) ==
    IF ~dropped.ok
    THEN generate_children_loop(h, id, i + 1)
    ELSE generate_children_loop(
            generate_children_push(id, col,
                get_board_state(h, dropped.board, ~h.nodes[id].turn)),
            id, i + 1)

generate_children_loop(h, id, i) ==
    IF i > Len(IDEAL_COLUMNS_FIRST) \/ h.panic # "none" THEN h
    ELSE generate_children_col(h, id, i, IDEAL_COLUMNS_FIRST[i],
            drop_piece(h.nodes[id].board, IDEAL_COLUMNS_FIRST[i],
                       h.nodes[id].turn))

ChildHandles(bs) == [k \in 1 .. Len(bs.children) |-> bs.children[k].state]

generate_children_result(h, id) ==
    [h |-> h, generated |-> ChildHandles(h.nodes[id])]

\* generate_children without the check for children generated earlier.
generate_children_again(h, id) ==
    IF h.nodes[id].game_over # "NoWin"
    THEN [h |-> h, generated |-> << >>]
    ELSE generate_children_result(generate_children_loop(h, id, 1), id)

\* generate_children without the early return on a finished game.
generate_children_after_game_over(h, id) ==
    IF Len(h.nodes[id].children) > 0
    THEN [h |-> h, generated |-> << >>]
    ELSE generate_children_result(generate_children_loop(h, id, 1), id)

generate_children(h, id) ==
    IF h.nodes[id].game_over # "NoWin"
    THEN [h |-> h, generated |-> << >>]
    ELSE IF Len(h.nodes[id].children) > 0
    THEN [h |-> h, generated |-> << >>]
    ELSE generate_children_result(generate_children_loop(h, id, 1), id)

\* BoardState::narrow_possibilities: the first child edge for col, the child
\* un-flipped in place when the edge is flipped.  found = FALSE is the panic
\* "Attempted to narrow possibilities to an invalid column".
FirstChildFor(children, col) ==
    LET hits == {k \in 1 .. Len(children) : children[k].last_move = col}
    IN  IF hits = {} THEN 0 ELSE CHOOSE k \in hits : \A j \in hits : k <= j

\* The child cell's content c, mirrored.
Unflipped(c) ==
    [c EXCEPT !.board = flip(c.board),
              !.children = [j \in 1 .. Len(c.children) |->
                              parent_flipped(c.children[j])]]

\* narrow_possibilities that forgets to un-flip a flipped child.
narrow_possibilities_child_as_stored(h, child) ==
    [h |-> h, state |-> child.state, found |-> TRUE,
     is_flipped |-> child.is_flipped]

narrow_possibilities_child(h, child) ==
    [h |-> IF child.is_flipped = "Flipped"
           THEN [h EXCEPT !.nodes[child.state] = Unflipped(h.nodes[child.state])]
           ELSE h,
     state |-> child.state,
     found |-> TRUE,
     is_flipped |-> child.is_flipped]

narrow_possibilities(h, self, col) ==
    IF FirstChildFor(self.children, col) = 0
    THEN [h |-> [h EXCEPT !.panic = "narrow_possibilities"],
          state |-> 0, found |-> FALSE, is_flipped |-> "Normal"]
    ELSE narrow_possibilities_child(h,
            self.children[FirstChildFor(self.children, col)])

(***************************************************************************)
(* LayerGenerator (layer_generator.rs).                                    *)
(* g = [h, generation_1, generation_2, generation_1_is_new]                *)
(***************************************************************************)
get_new_generation(g) ==
    IF g.generation_1_is_new THEN g.generation_1 ELSE g.generation_2

get_previous_generation(g) ==
    IF g.generation_1_is_new THEN g.generation_2 ELSE g.generation_1

SetNewGeneration(g, v) ==
    IF g.generation_1_is_new
    THEN [g EXCEPT !.generation_1 = v]
    ELSE [g EXCEPT !.generation_2 = v]

SetPreviousGeneration(g, v) ==
    IF g.generation_1_is_new
    THEN [g EXCEPT !.generation_2 = v]
    ELSE [g EXCEPT !.generation_1 = v]

\* The depth-first walk of get_bottom_two_layers: to_explore is a stack whose
\* top is its last element.
RECURSIVE bottom_layers_walk(_, _, _, _)
bottom_layers_walk(ns, to_explore, false_layer, true_layer) ==
    IF Len(to_explore) = 0
    THEN [false_layer |-> false_layer, true_layer |-> true_layer]
    ELSE LET curr_state == to_explore[Len(to_explore)]
             rest == SubSeq(to_explore, 1, Len(to_explore) - 1)
             bs == ns[curr_state]
         IN  IF Len(bs.children) > 0
             THEN bottom_layers_walk(ns, rest \o ChildHandles(bs),
                                     false_layer, true_layer)
             ELSE IF bs.game_over = "NoWin"
             THEN (IF bs.turn
                   THEN bottom_layers_walk(ns, rest, false_layer,
                                           Append(true_layer, curr_state))
                   ELSE bottom_layers_walk(ns, rest,
                                           Append(false_layer, curr_state),
                                           true_layer))
             ELSE bottom_layers_walk(ns, rest, false_layer, true_layer)

\* get_bottom_two_layers that returns the layers by whose turn it is without
\* comparing their depths.
get_bottom_two_layers_by_turn(ns, board) ==
    LET w == bottom_layers_walk(ns, <<board>>, << >>, << >>)
    IN  IF Len(w.false_layer) > 0
        THEN <<w.false_layer, w.true_layer>>
        ELSE <<w.true_layer, w.false_layer>>

\* Returns <<previous_generation, new_generation>>.
get_bottom_two_layers(ns, board) ==
    LET w == bottom_layers_walk(ns, <<board>>, << >>, << >>)
        false_layer == w.false_layer
        true_layer == w.true_layer
    IN  IF Len(false_layer) > 0 /\ Len(true_layer) > 0
        THEN LET false_depth == get_depth(ns[false_layer[1]])
                 true_depth == get_depth(ns[true_layer[1]])
             IN  IF false_depth < true_depth
                 THEN <<false_layer, true_layer>>
                 ELSE <<true_layer, false_layer>>
        ELSE IF Len(false_layer) > 0
        THEN <<false_layer, true_layer>>
        ELSE <<true_layer, false_layer>>

\* LayerGenerator::new
LayerGeneratorNew(h, board) ==
    LET layers == get_bottom_two_layers(h.nodes, board)
    IN  [h |-> h,
         generation_1 |-> layers[1],
         generation_2 |-> layers[2],
         generation_1_is_new |-> FALSE]

\* LayerGenerator::restart
restart(g, board) ==
    LET layers == get_bottom_two_layers(g.h.nodes, board)
    IN  [g EXCEPT !.generation_1 = layers[1],
                  !.generation_2 = layers[2],
                  !.generation_1_is_new = FALSE]

\* Iterator::next: some = FALSE is None, otherwise num is the item.
\* g1 is the generator after the pop, gc what generate_children returned.
\* next counting the popped board state along with its children.
next_extend_counting_popped(g1, gc) ==
    [g |-> SetNewGeneration([g1 EXCEPT !.h = gc.h],
                            get_new_generation(g1) \o gc.generated),
     some |-> TRUE,
     num |-> Len(gc.generated) + 1]

next_extend(g1, gc) ==
    [g |-> SetNewGeneration([g1 EXCEPT !.h = gc.h],
                            get_new_generation(g1) \o gc.generated),
     some |-> TRUE,
     num |-> Len(gc.generated)]

\* next leaving the popped board state in the previous generation.
next_pop_keeping(g, previous) ==
    next_extend(g, generate_children(g.h, previous[Len(previous)]))

next_pop(g, previous) ==
    next_extend(SetPreviousGeneration(g, SubSeq(previous, 1, Len(previous) - 1)),
                generate_children(g.h, previous[Len(previous)]))

\* next giving up when the previous generation is empty.
next_without_swap(g) ==
    IF Len(get_previous_generation(g)) > 0
    THEN next_pop(g, get_previous_generation(g))
    ELSE [g |-> g, some |-> FALSE, num |-> 0]

RECURSIVE next(_)
next(g) ==
    IF Len(get_previous_generation(g)) > 0
    THEN next_pop(g, get_previous_generation(g))
    ELSE IF Len(get_new_generation(g)) > 0
    THEN next([g EXCEPT !.generation_1_is_new = ~g.generation_1_is_new])
    ELSE [g |-> g, some |-> FALSE, num |-> 0]

\* LayerGenerator::buffer_size (called by calculate_size)
buffer_size(g) == Len(g.generation_1) + Len(g.generation_2)

(***************************************************************************)
(* Reference counting.  The graph of child edges is acyclic (a child has   *)
(* one piece more than its parent), so a cell has a strong holder exactly  *)
(* when it is reachable from a holder outside the graph.                   *)
(***************************************************************************)
RECURSIVE Reach(_, _)
Reach(ns, S) ==
    LET T == S \cup UNION {{ns[n].children[k].state :
                                k \in 1 .. Len(ns[n].children)} : n \in S}
    IN  IF T = S THEN S ELSE Reach(ns, T)


SeqCount(seq, x) == Cardinality({k \in 1 .. Len(seq) : seq[k] = x})

\* The sum and the maximum of f over the finite set S (f a natural number).
SumOver(S, f(_)) == Cardinality(UNION {{<<x, i>> : i \in 1 .. f(x)} : x \in S})

MaxOverSet(S, f(_)) ==
    IF S = {} THEN 0 ELSE CHOOSE m \in {f(x) : x \in S} : \A x \in S : f(x) <= m

\* Rc::strong_count of a live cell: the child edges that hold it, its
\* occurrences in the generator's buffers, and the handles held outside the
\* tree (outside_handles of them).
strong_count(g, outside_handles, id) ==
    Cardinality({e \in (DOMAIN g.h.nodes) \X (1 .. BOARD_WIDTH) :
                    /\ e[2] <= Len(g.h.nodes[e[1]].children)
                    /\ g.h.nodes[e[1]].children[e[2]].state = id})
        + SeqCount(g.generation_1, id) + SeqCount(g.generation_2, id)
        + outside_handles

\* Dropping every handle that went out of scope frees the cells that are
\* reachable neither from the handles still held outside the tree (holders)
\* nor from the generator's buffers.
Restrict(ns, alive) == [n \in alive |-> ns[n]]

DropUnheld(g, holders) ==
    [g EXCEPT !.h.nodes =
        Restrict(g.h.nodes,
            Reach(g.h.nodes,
                  holders \cup {g.generation_1[k] : k \in 1 .. Len(g.generation_1)}
                          \cup {g.generation_2[k] : k \in 1 .. Len(g.generation_2)}))]

(***************************************************************************)
(* Tree size (tree_size.rs)                                                *)
(***************************************************************************)
\* size_of::<u64>(), size_of::<Weak<..>>(), size_of::<BoardState>() and
\* size_of::<ChildState>() on a 64-bit target.
SIZE_OF_KEY == 8

SIZE_OF_WEAK == 8

SIZE_OF_BOARD_STATE == 48

SIZE_OF_CHILD_STATE == 16

\* The keys of the table whose weak reference has strong_count() > 0.
LiveKeys(h) == {k \in DOMAIN h.table : h.table[k] \in DOMAIN h.nodes}

\* calculate_size(root, generator): the manager's handle and the clone
\* passed as root are the two handles on the root from outside the tree.
calculate_size(g, root) ==
    LET count(k) == strong_count(g, IF g.h.table[k] = root THEN 2 ELSE 0,
                                 g.h.table[k])
        depth(k) == get_depth(g.h.nodes[g.h.table[k]])
    IN  [depth |-> MaxOverSet(LiveKeys(g.h), depth) - get_depth(g.h.nodes[root]) + 1,
         size |-> SumOver(LiveKeys(g.h), count) - buffer_size(g),
         memory |-> Cardinality(DOMAIN g.h.table) * (SIZE_OF_KEY + SIZE_OF_WEAK)
                      + Cardinality(LiveKeys(g.h)) * SIZE_OF_BOARD_STATE
                      + SumOver(LiveKeys(g.h), count) * SIZE_OF_CHILD_STATE]

(***************************************************************************)
(* GameManager (game_manager.rs)                                           *)
(***************************************************************************)
\* The loop of try_generate_x_states; r is what layer_generator.next()
\* returned.
RECURSIVE try_generate_loop(_, _, _)
\* try_generate_x_states that counts the calls of next() instead of the
\* states they generated.
try_generate_item_counting_calls(r, x, num_generated) ==
    IF r.some
    THEN try_generate_loop(r.g, x, num_generated + 1)
    ELSE [g |-> r.g, num_generated |-> num_generated]

try_generate_item(r, x, num_generated) ==
    IF r.some
    THEN try_generate_loop(r.g, x, num_generated + r.num)
    ELSE [g |-> r.g, num_generated |-> num_generated]

try_generate_loop(g, x, num_generated) ==
    IF ~(num_generated < x) \/ g.h.panic # "none"
    THEN [g |-> g, num_generated |-> num_generated]
    ELSE try_generate_item(next(g), x, num_generated)

try_generate_x_states(g, x) == try_generate_loop(g, x, 0)

IsValidCol(bs, col) ==
    \E k \in 1 .. Len(bs.children) : bs.children[k].last_move = col

MakeMoveResult(g, result, pregen, flipped) ==
    [g |-> g, result |-> result, pregen |-> pregen, flipped |-> flipped]

\* self.layer_generator.restart(), after which every handle that went out
\* of scope is dropped.
make_move_restart(g, root, pregen, is_flipped) ==
    MakeMoveResult(DropUnheld(restart(g, root), {root}), "Ok", pregen,
                   is_flipped = "Flipped")

\* .take() on the cell narrow_possibilities returned (np) and .replace() on
\* the root cell; a panic of narrow_possibilities ends the program.
make_move_replace(g, root, pregen, np) ==
    IF ~np.found
    THEN MakeMoveResult([g EXCEPT !.h = np.h], "Panic", pregen, FALSE)
    ELSE make_move_restart(
            [g EXCEPT !.h = [np.h EXCEPT !.nodes[root] = np.h.nodes[np.state],
                                         !.nodes[np.state] = BoardStateDefault]],
            root, pregen, np.is_flipped)

\* self.board_state.take() leaves a default state in the root cell and
\* hands its content (self) to narrow_possibilities.
make_move_narrow(g, root, col, pregen, self) ==
    make_move_replace(g, root, pregen,
        narrow_possibilities([g.h EXCEPT !.nodes[root] = BoardStateDefault],
                             self, col))

\* make_move without the loop that looks for col among the root's children.
make_move_checked_any_column(g, root, col, pregen) ==
    IF g.h.panic # "none"
    THEN MakeMoveResult(g, "Panic", pregen, FALSE)
    ELSE IF Len(g.h.nodes[root].children) = 0
    THEN MakeMoveResult(g, "NoChildren", pregen, FALSE)
    ELSE make_move_narrow(g, root, col, pregen, g.h.nodes[root])

\* make_move from the second check of the root's children on.
make_move_checked(g, root, col, pregen) ==
    IF g.h.panic # "none"
    THEN MakeMoveResult(g, "Panic", pregen, FALSE)
    ELSE IF Len(g.h.nodes[root].children) = 0
    THEN MakeMoveResult(g, "NoChildren", pregen, FALSE)
    ELSE IF ~IsValidCol(g.h.nodes[root], col)
    THEN MakeMoveResult(g, "InvalidColumn", pregen, FALSE)
    ELSE make_move_narrow(g, root, col, pregen, g.h.nodes[root])

\* make_move: result is "Ok" or the reason of the Err.
make_move(g, root, col) ==
    IF g.h.nodes[root].game_over # "NoWin"
    THEN MakeMoveResult(g, "GameOver", FALSE, FALSE)
    ELSE IF Len(g.h.nodes[root].children) = 0
    THEN make_move_checked(try_generate_x_states(g, 1).g, root, col, TRUE)
    ELSE make_move_checked(g, root, col, FALSE)

(***************************************************************************)
(* Starting positions, as the arrays given to start_from_position.         *)
(***************************************************************************)

\* The position of tests::drops_successful (game_manager.rs).
PositionDrops ==
    <<  <<1, 2, 2, 1, 1, 0, 0>>,
        <<1, 2, 1, 2, 1, 2, 0>>,
        <<1, 2, 1, 2, 1, 2, 0>>,
        <<2, 1, 2, 1, 2, 1, 0>>,
        <<2, 1, 2, 1, 2, 1, 0>>,
        <<2, 1, 2, 1, 2, 1, 0>>  >>

\* The same game after make_move(5) and four times make_move(6) from the
\* first player's turn: two cells are left and the second player is to move.
PositionLate ==
    <<  <<1, 2, 2, 1, 1, 1, 0>>,
        <<1, 2, 1, 2, 1, 2, 0>>,
        <<1, 2, 1, 2, 1, 2, 1>>,
        <<2, 1, 2, 1, 2, 1, 2>>,
        <<2, 1, 2, 1, 2, 1, 1>>,
        <<2, 1, 2, 1, 2, 1, 2>>  >>

\* The game after six moves in column 3: the column is full and the board
\* is its own mirror image.
PositionCentreFull ==
    <<  <<0, 0, 0, 2, 0, 0, 0>>,
        <<0, 0, 0, 1, 0, 0, 0>>,
        <<0, 0, 0, 2, 0, 0, 0>>,
        <<0, 0, 0, 1, 0, 0, 0>>,
        <<0, 0, 0, 2, 0, 0, 0>>,
        <<0, 0, 0, 1, 0, 0, 0>>  >>

StartPositions ==
    { [position |-> PositionDrops, turn |-> FALSE],
      [position |-> PositionDrops, turn |-> TRUE],
      [position |-> PositionLate, turn |-> TRUE],
      [position |-> PositionCentreFull, turn |-> FALSE] }

EmptyHeap == [nodes |-> << >>, table |-> << >>, alloc |-> 1, panic |-> "none"]

\* The manager around the root cell that get_board_state returned (r).
ManagerOf(r) == [g |-> LayerGeneratorNew(r.h, r.state), board_state |-> r.state]

\* GameManager::new_game
new_game == ManagerOf(get_board_state(EmptyHeap, DefaultBoard, FALSE))

\* GameManager::start_from_position
start_from_position(position, turn) ==
    ManagerOf(get_board_state(EmptyHeap, from_arrays(position), turn))

(***************************************************************************)
(* The state machine                                                       *)
(***************************************************************************)
\* The manager's layer generator as the record the operators work on.
G == [h |-> [nodes |-> nodes, table |-> table, alloc |-> alloc, panic |-> panic],
      generation_1 |-> generation_1,
      generation_2 |-> generation_2,
      generation_1_is_new |-> generation_1_is_new]

Store(g) ==
    /\ nodes' = g.h.nodes
    /\ table' = g.h.table
    /\ alloc' = g.h.alloc
    /\ panic' = g.h.panic
    /\ generation_1' = g.generation_1
    /\ generation_2' = g.generation_2
    /\ generation_1_is_new' = g.generation_1_is_new

\* The managers a program starts with, each with the constructor that made it.
Constructors ==
    {[m |-> new_game, op |-> "new_game"]}
        \cup {[m |-> start_from_position(s.position, s.turn),
               op |-> "start_from_position"] : s \in StartPositions}

Returned(op, arg, result, num, pregen, flipped) ==
    [op |-> op, arg |-> arg, result |-> result, num |-> num,
     pregen |-> pregen, flipped |-> flipped]

Init ==
    \E c \in Constructors :
        /\ nodes = c.m.g.h.nodes
        /\ table = c.m.g.h.table
        /\ alloc = c.m.g.h.alloc
        /\ panic = c.m.g.h.panic
        /\ generation_1 = c.m.g.generation_1
        /\ generation_2 = c.m.g.generation_2
        /\ generation_1_is_new = c.m.g.generation_1_is_new
        /\ board_state = c.m.board_state
        /\ held = {}
        /\ app = NoApp
        /\ ret = Returned(c.op, 0, "Ok", 0, FALSE, FALSE)

TryGenerateDone(x, r) ==
    /\ Store(r.g)
    /\ ret' = Returned("try_generate_x_states", x, "Ok", r.num_generated,
                       FALSE, FALSE)

TryGenerate(x) ==
    /\ panic = "none"
    /\ alloc <= MaxAlloc
    /\ TryGenerateDone(x, try_generate_x_states(G, x))
    /\ UNCHANGED <<board_state, held, app>>

MakeMoveDone(col, r) ==
    /\ Store(r.g)
    /\ ret' = Returned("make_move", col, r.result, 0, r.pregen, r.flipped)

MakeMove(col) ==
    /\ panic = "none"
    /\ alloc <= MaxAlloc
    /\ MakeMoveDone(col, make_move(G, board_state, col))
    /\ UNCHANGED <<board_state, held, app>>

Next ==
    \/ \E x \in 0 .. MaxX : TryGenerate(x)
    \/ \E col \in 0 .. MaxCol : MakeMove(col)

Spec == Init /\ [][Next]_vars

(***************************************************************************)
(* What the manager's callers observe                                      *)
(***************************************************************************)
get_position == to_arrays(nodes[board_state].board)

manager_is_game_over == nodes[board_state].game_over

size == calculate_size(G, board_state)

(***************************************************************************)
(* Properties of the manager                                               *)
(***************************************************************************)
\* The piece the player to move drops: 1 for the first player (turn FALSE).
MoverPiece(turn) == IF turn THEN 2 ELSE 1

\* The rows of the array p where column c (from 1) is empty.
EmptyRows(p, c) == {i \in 1 .. BOARD_HEIGHT : p[i][c] = 0}

\* p with piece in the lowest empty cell of column c (from 1).
WithPieceOnTop(p, c, piece) ==
    [i \in 1 .. BOARD_HEIGHT |->
        [j \in 1 .. BOARD_WIDTH |->
            IF j = c /\ i \in EmptyRows(p, c) /\ (\A k \in EmptyRows(p, c) : k <= i)
            THEN piece
            ELSE p[i][j]]]

\* Every cell reachable from the root is a finished game or has its children.
FullyExpanded ==
    \A n \in Reach(nodes, {board_state}) :
        nodes[n].game_over # "NoWin" \/ Len(nodes[n].children) > 0

\* C1: a successful make_move(col) adds exactly one piece of the player to
\* move on top of column col of get_position(), changes no other cell and
\* hands the turn to the other player, also over a flipped child edge.
C1_MakeMoveAddsOnePiece ==
    [][(ret'.op = "make_move" /\ ret'.result = "Ok") =>
          /\ EmptyRows(get_position, ret'.arg + 1) # {}
          /\ get_position' = WithPieceOnTop(get_position, ret'.arg + 1,
                                    MoverPiece(nodes[board_state].turn))
          /\ nodes'[board_state'].turn = ~nodes[board_state].turn]_vars

C1_Witness ==
    /\ ret.op = "make_move"
    /\ ret.result = "Ok"
    /\ ret.flipped

\* C2: a make_move on an invalid column (full, or outside 0..6) fails and
\* leaves get_position() and size() as they were, also when the root's
\* children had not been generated before the call.
C2_InvalidMoveChangesNothing ==
    [][(ret'.op = "make_move" /\ ret'.result = "InvalidColumn") =>
          /\ get_position' = get_position
          /\ size' = size]_vars

\* C3: make_move never panics; it fails when the game is over, the column
\* is full or the column is out of range; and once the game is over every
\* make_move fails and is_game_over() keeps its value.
C3_MakeMoveFailsWithoutPanic ==
    /\ [](panic = "none")
    /\ [][ret'.op = "make_move" =>
            ((\/ manager_is_game_over # "NoWin"
              \/ ret'.arg \notin Columns
              \/ get_position[1][ret'.arg + 1] # 0)
                => ret'.result \notin {"Ok", "Panic"})]_vars
    /\ [][manager_is_game_over # "NoWin" =>
            /\ manager_is_game_over' = manager_is_game_over
            /\ (ret'.op = "make_move" => ret'.result = "GameOver")]_vars

C3_Witness ==
    /\ ret.op = "make_move"
    /\ ret.result = "GameOver"
    /\ manager_is_game_over # "NoWin"

\* C7: when a successful make_move returns, the table holds no entry whose
\* node is dead (clean() ran between the narrowing and the restart).
C7_NoDeadEntryAfterMakeMove ==
    (ret.op = "make_move" /\ ret.result = "Ok") =>
        \A k \in DOMAIN table : table[k] \in DOMAIN nodes

\* C9: a call of try_generate_x_states never decreases size().size, and it
\* returns 0 when the tree reachable from the root is fully expanded.
C9_TryGenerateMonotonic ==
    [][ret'.op = "try_generate_x_states" =>
          /\ size'.size >= size.size
          /\ (FullyExpanded => ret'.num = 0)]_vars

C9_Witness ==
    /\ ret.op = "try_generate_x_states"
    /\ ret.arg > 0
    /\ ret.num = 0
    /\ FullyExpanded
    /\ Len(nodes[board_state].children) > 0

\* C10 as claimed: try_generate_x_states(n) returns at most n, and less
\* than n only if the tree became fully expanded.
C10_ReturnsAtMostN ==
    ret.op = "try_generate_x_states" =>
        /\ ret.num <= ret.arg
        /\ (ret.num < ret.arg => FullyExpanded)

\* C10 amended: try_generate_x_states(n) returns the number of states
\* generated, by which size().size grows; the number is less than
\* n + BOARD_WIDTH (0 for n = 0), and it is less than n only if the tree
\* became fully expanded.
C10_ReturnsLessThanNPlusWidth ==
    /\ [](ret.op = "try_generate_x_states" =>
            /\ (ret.arg = 0 => ret.num = 0)
            /\ ret.num < ret.arg + BOARD_WIDTH
            /\ (ret.num < ret.arg => FullyExpanded))
    /\ [][ret'.op = "try_generate_x_states" =>
            size'.size = size.size + ret'.num]_vars

C10_Witness ==
    /\ ret.op = "try_generate_x_states"
    /\ ret.arg > 0
    /\ ret.num > ret.arg

(***************************************************************************)
(* The transposition table under a direct client (transposition.rs tests): *)
(* the client asks for board states, keeps or drops the handles it got,    *)
(* expands a board state it holds and cleans the table.                    *)
(***************************************************************************)
\* The board of tests::transposes and its mirror image.
TransposesBoard ==
    <<  <<0, 0, 0, 0, 0, 0, 2>>,
        <<0, 0, 0, 0, 0, 0, 2>>,
        <<0, 0, 0, 1, 0, 0, 1>>,
        <<0, 2, 0, 1, 0, 2, 1>>,
        <<0, 1, 2, 1, 0, 1, 2>>,
        <<0, 1, 2, 1, 2, 1, 2>>  >>

TransposesFlippedBoard ==
    <<  <<2, 0, 0, 0, 0, 0, 0>>,
        <<2, 0, 0, 0, 0, 0, 0>>,
        <<1, 0, 0, 1, 0, 0, 0>>,
        <<1, 2, 0, 1, 0, 2, 0>>,
        <<2, 1, 0, 1, 2, 1, 0>>,
        <<2, 1, 2, 1, 2, 1, 0>>  >>

\* The boards the client asks for: the two above, and a position with two
\* cells left together with its mirror image.
TableBoards ==
    { from_arrays(TransposesBoard), from_arrays(TransposesFlippedBoard),
      from_arrays(PositionLate), flip(from_arrays(PositionLate)) }

\* The client stops asking once this many cells have been allocated.
MaxTableAlloc == 4

H == [nodes |-> nodes, table |-> table, alloc |-> alloc, panic |-> panic]

StoreHeap(h) ==
    /\ nodes' = h.nodes
    /\ table' = h.table
    /\ alloc' = h.alloc
    /\ panic' = h.panic

\* What the last call of the client returned: created tells whether the
\* call constructed a cell, expanded whether the board state handed to
\* generate_children had children already, removed is the set of keys that
\* clean dropped.
TableReturned(op, board, turn, state, is_flipped, created, expanded, removed) ==
    [op |-> op, board |-> board, turn |-> turn, state |-> state,
     is_flipped |-> is_flipped, created |-> created, expanded |-> expanded,
     removed |-> removed]

\* TranspositionTable::default()
InitTable ==
    /\ nodes = << >>
    /\ table = << >>
    /\ alloc = 1
    /\ panic = "none"
    /\ board_state = 0
    /\ generation_1 = << >>
    /\ generation_2 = << >>
    /\ generation_1_is_new = FALSE
    /\ held = {}
    /\ app = NoApp
    /\ ret = TableReturned("default", DefaultBoard, FALSE, 0, "Normal", FALSE, FALSE, {})

GetBoardStateDone(board, turn, r) ==
    /\ StoreHeap(r.h)
    /\ held' = IF r.h.panic = "none" THEN held \cup {r.state} ELSE held
    /\ ret' = TableReturned("get_board_state", board, turn, r.state,
                            r.is_flipped, r.h.alloc # alloc, FALSE, {})

\* let (state, is_flipped) = table.get_board_state(board, turn);
GetBoardState(board, turn) ==
    /\ panic = "none"
    /\ alloc <= MaxTableAlloc
    /\ GetBoardStateDone(board, turn, get_board_state(H, board, turn))
    /\ UNCHANGED <<board_state, generation_1, generation_2, generation_1_is_new,
                   app>>

\* drop(state): the client gives up its handles to the cell id; the cell and
\* the cells only it kept alive are freed.
Drop(id) ==
    /\ panic = "none"
    /\ id \in held
    /\ held' = held \ {id}
    /\ nodes' = Restrict(nodes, Reach(nodes, held \ {id}))
    /\ ret' = TableReturned("drop", DefaultBoard, FALSE, id, "Normal", FALSE, FALSE, {})
    /\ UNCHANGED <<table, alloc, panic, board_state, generation_1,
                   generation_2, generation_1_is_new, app>>

ExpandDone(id, r) ==
    /\ StoreHeap(r.h)
    /\ ret' = TableReturned("generate_children", nodes[id].board, nodes[id].turn,
                            id, "Normal", r.h.alloc # alloc,
                            Len(nodes[id].children) > 0, {})

\* state.borrow_mut().generate_children(&mut table), the returned handles
\* dropped at once.
Expand(id) ==
    /\ panic = "none"
    /\ alloc <= MaxTableAlloc
    /\ id \in held
    /\ ExpandDone(id, generate_children(H, id))
    /\ UNCHANGED <<held, board_state, generation_1, generation_2,
                   generation_1_is_new, app>>

\* table.clean()
Clean ==
    /\ panic = "none"
    /\ table' = clean(table, DOMAIN nodes)
    /\ ret' = TableReturned("clean", DefaultBoard, FALSE, 0, "Normal", FALSE,
                            FALSE, (DOMAIN table) \ DOMAIN clean(table, DOMAIN nodes))
    /\ UNCHANGED <<nodes, alloc, panic, board_state, generation_1,
                   generation_2, generation_1_is_new, held, app>>

NextTable ==
    \/ \E board \in TableBoards : \E turn \in BOOLEAN : GetBoardState(board, turn)
    \/ \E id \in held : Drop(id)
    \/ \E id \in held : Expand(id)
    \/ Clean

SpecTable == InitTable /\ [][NextTable]_vars

(***************************************************************************)
(* Properties of the transposition table                                   *)
(***************************************************************************)
\* The live cells other than n that hold the board of n or its mirror image,
\* with the same turn.
Transpositions(ns, board, turn) ==
    {m \in DOMAIN ns : /\ ns[m].turn = turn
                       /\ (ns[m].board = board \/ ns[m].board = flip(board))}

\* C4: at most one live board state exists per board up to left-right
\* mirroring and turn, and get_board_state constructs a board state only
\* when no live board state holds the requested board or its mirror image.
C4_OneLiveNodePerTransposition ==
    /\ [](\A n \in DOMAIN nodes :
            Cardinality(Transpositions(nodes, nodes[n].board, nodes[n].turn)) = 1)
    /\ [][(ret'.op = "get_board_state" /\ ret'.created) =>
            Transpositions(nodes, ret'.board, ret'.turn) = {}]_vars

\* C5: when get_board_state(b, t) has created a board state that is still
\* alive, get_board_state(mirror(b), t) returns that same board state with
\* orientation Flipped.
C5_MirrorQueryReturnsSameNode ==
    [][(/\ ret.op = "get_board_state" /\ ret.created
        /\ ret.state \in DOMAIN nodes
        /\ ret'.op = "get_board_state"
        /\ ret'.board = flip(ret.board) /\ ret'.turn = ret.turn)
       => (ret'.state = ret.state /\ ret'.is_flipped = "Flipped")]_vars

\* A cell has a strong holder when the client holds a handle to it or a live
\* cell has a child edge to it.
HasStrongHolder(id) ==
    id \in DOMAIN nodes /\ strong_count(G, Cardinality(held \cap {id}), id) > 0

\* C6: clean() removes from the table exactly the entries whose cell has no
\* strong holder, and leaves every other entry, and every cell, as it was.
C6_CleanRemovesExactlyDeadEntries ==
    [][ret'.op = "clean" =>
          /\ nodes' = nodes
          /\ DOMAIN table' = {k \in DOMAIN table : HasStrongHolder(table[k])}
          /\ \A k \in DOMAIN table' : table'[k] = table[k]]_vars

\* clean() ran on a table with dead entries and with live ones.
C6_Witness ==
    ret.op = "clean" /\ ret.removed # {} /\ DOMAIN table # {}

(***************************************************************************)
(* Monte-Carlo tree search (monte_carlo.rs).  The random choice of         *)
(* simulation makes every operator return the set of its possible results. *)
(***************************************************************************)
\* The exploration constant C, in thousandths.
C_MILLI == 1414

\* 1000 * ln(p) for p = 1, 2, ...; 1000 * ln(p) of the last entry beyond it.
LN_MILLI ==
    <<0, 693, 1099, 1386, 1609, 1792, 1946, 2079, 2197, 2303, 2398, 2485,
      2565, 2639, 2708, 2773>>

LnMilli(p) == LN_MILLI[Min2(p, Len(LN_MILLI))]

\* The integer square root.
ISqrt(x) == CHOOSE r \in 0 .. 2000 : r * r <= x /\ x < (r + 1) * (r + 1)

\* upper_confidence_bound_one in f32: the score is NaN when the child was
\* never rolled out (0.0 / 0.0) or the parent was not (ln 0 = -inf, its
\* square root NaN); otherwise it is finite, here in thousandths.
upper_confidence_bound_one(parent, child) ==
    IF child.total = 0 \/ parent.total = 0
    THEN [nan |-> TRUE, milli |-> 0]
    ELSE [nan |-> FALSE,
          milli |-> (1000 * child.success) \div child.total
                    + (C_MILLI * ISqrt((1000 * LnMilli(parent.total \div 2))
                                        \div (child.total \div 2))) \div 1000]

\* BoardState::update_rollout_results
update_rollout_results(h, id, result) ==
    IF h.panic # "none" THEN h
    ELSE IF result = "NoWin"
    THEN [h EXCEPT !.panic = "update_rollout_results"]
    ELSE [h EXCEPT
            !.nodes[id].rollout_results.success =
                @ + (IF result = "Tie" THEN 1
                     ELSE IF result = "OneWins"
                     THEN (IF ~h.nodes[id].turn THEN 2 ELSE 0)
                     ELSE (IF h.nodes[id].turn THEN 2 ELSE 0)),
            !.nodes[id].rollout_results.total = @ + 2]

\* self.update_rollout_results(result) on each outcome of a recursive call.
Backpropagate(outcomes, id) ==
    {[h |-> update_rollout_results(o.h, id, o.result), result |-> o.result] :
        o \in outcomes}

Aborted(h) == {[h |-> h, result |-> "NoWin"]}

RECURSIVE simulation(_, _)
\* The rest of simulation once generate_children returned gc: choose(..)
\* is None on an empty list and unwrap panics.
simulation_children(gc, id) ==
    IF gc.h.panic # "none" THEN Aborted(gc.h)
    ELSE IF Len(gc.generated) = 0
    THEN Aborted([gc.h EXCEPT !.panic = "simulation_unwrap"])
    ELSE Backpropagate(
            UNION {simulation(gc.h, gc.generated[k]) :
                      k \in 1 .. Len(gc.generated)},
            id)

\* BoardState::simulation
simulation(h, id) ==
    IF h.panic # "none" THEN Aborted(h)
    ELSE IF h.nodes[id].game_over # "NoWin"
    THEN {[h |-> update_rollout_results(h, id, h.nodes[id].game_over),
           result |-> h.nodes[id].game_over]}
    ELSE simulation_children(generate_children(h, id), id)

\* The scores of the children of id, in the order of the children.
potential_moves(h, id) ==
    [k \in 1 .. Len(h.nodes[id].children) |->
        upper_confidence_bound_one(
            h.nodes[id].rollout_results,
            h.nodes[h.nodes[id].children[k].state].rollout_results)]

\* sort_by(|one, two| two.partial_cmp(one).unwrap()) sorts by falling score
\* and keeps the order of equal scores; pop() takes the last element: the
\* lowest score, and of equal lowest scores the last child.  With two or
\* more elements a NaN score makes partial_cmp None and unwrap panics.
PoppedMove(pm) ==
    IF Len(pm) >= 2 /\ \E k \in 1 .. Len(pm) : pm[k].nan
    THEN [panic |-> TRUE, index |-> 0]
    ELSE [panic |-> FALSE,
          index |-> CHOOSE k \in 1 .. Len(pm) :
                        \A j \in 1 .. Len(pm) :
                            \/ pm[k].milli < pm[j].milli
                            \/ (pm[k].milli = pm[j].milli /\ j <= k)]

RECURSIVE selection(_, _)
selection_explore(h, id, popped) ==
    IF popped.panic
    THEN Aborted([h EXCEPT !.panic = "partial_cmp_unwrap"])
    ELSE Backpropagate(selection(h, h.nodes[id].children[popped.index].state), id)

\* BoardState::selection
selection(h, id) ==
    IF h.panic # "none" THEN Aborted(h)
    ELSE IF Len(h.nodes[id].children) = 0
    THEN Backpropagate(simulation(h, id), id)
    ELSE selection_explore(h, id, PoppedMove(potential_moves(h, id)))

\* One iteration of the loop of generate_rollouts, on the child cell c.
generate_rollouts_child(h, c) ==
    IF h.panic # "none" THEN {h}
    ELSE IF h.nodes[c].game_over = "NoWin"
    THEN {o.h : o \in selection(h, c)}
    ELSE {h}

RECURSIVE generate_rollouts_from(_, _, _, _)
generate_rollouts_from(heaps, id, k, n) ==
    IF k > n THEN heaps
    ELSE generate_rollouts_from(
            UNION {generate_rollouts_child(h, h.nodes[id].children[k].state) :
                      h \in heaps},
            id, k + 1, n)

\* BoardState::generate_rollouts
generate_rollouts(h, id) ==
    generate_rollouts_from({h}, id, 1, Len(h.nodes[id].children))

(***************************************************************************)
(* The manager's tree with Monte-Carlo rollouts run on its root: the       *)
(* rollouts expand board states through the table of the layer generator.  *)
(***************************************************************************)
\* No more rollouts are started once a board state has this total.
MaxRolloutTotal == 3

\* The position of tests::drops_successful after two moves in column 6: one
\* cell of column 5 and four cells of column 6 are left.
PositionRollout ==
    <<  <<1, 2, 2, 1, 1, 0, 0>>,
        <<1, 2, 1, 2, 1, 2, 0>>,
        <<1, 2, 1, 2, 1, 2, 0>>,
        <<2, 1, 2, 1, 2, 1, 0>>,
        <<2, 1, 2, 1, 2, 1, 2>>,
        <<2, 1, 2, 1, 2, 1, 1>>  >>

\* A position in which the first player, to move, wins at once in column 5
\* and three cells of column 6 stay empty.
PositionWinning ==
    <<  <<1, 2, 1, 1, 1, 0, 0>>,
        <<1, 2, 1, 2, 2, 2, 0>>,
        <<1, 2, 1, 2, 1, 2, 0>>,
        <<2, 1, 2, 1, 2, 1, 2>>,
        <<2, 1, 2, 1, 2, 1, 1>>,
        <<2, 1, 2, 1, 2, 1, 2>>  >>

RolloutManagers ==
    { start_from_position(PositionRollout, FALSE),
      start_from_position(PositionWinning, FALSE) }

InitRollout ==
    \E m \in RolloutManagers :
        /\ nodes = m.g.h.nodes
        /\ table = m.g.h.table
        /\ alloc = m.g.h.alloc
        /\ panic = m.g.h.panic
        /\ generation_1 = m.g.generation_1
        /\ generation_2 = m.g.generation_2
        /\ generation_1_is_new = m.g.generation_1_is_new
        /\ board_state = m.board_state
        /\ held = {}
        /\ app = NoApp
        /\ ret = Returned("start_from_position", 0, "Ok", 0, FALSE, FALSE)

\* board_state.borrow_mut().generate_rollouts(&mut table, &mut thread_rng)
GenerateRollouts ==
    /\ panic = "none"
    /\ \A n \in DOMAIN nodes : nodes[n].rollout_results.total <= MaxRolloutTotal
    /\ \E h \in generate_rollouts(H, board_state) :
          /\ StoreHeap(h)
          /\ ret' = Returned("generate_rollouts", 0,
                             IF h.panic = "none" THEN "Ok" ELSE "Panic",
                             0, FALSE, FALSE)
    /\ UNCHANGED <<board_state, generation_1, generation_2,
                   generation_1_is_new, held, app>>

\* try_generate_x_states and make_move on these small trees.
RolloutTryGenerate(x) ==
    /\ panic = "none"
    /\ TryGenerateDone(x, try_generate_x_states(G, x))
    /\ UNCHANGED <<board_state, held, app>>

RolloutMakeMove(col) ==
    /\ panic = "none"
    /\ MakeMoveDone(col, make_move(G, board_state, col))
    /\ UNCHANGED <<board_state, held, app>>

NextRollout ==
    \/ \E x \in 0 .. MaxX : RolloutTryGenerate(x)
    \/ \E col \in 0 .. MaxCol : RolloutMakeMove(col)
    \/ GenerateRollouts

SpecRollout == InitRollout /\ [][NextRollout]_vars

(***************************************************************************)
(* Properties of the layer generator                                       *)
(***************************************************************************)
\* The depths of the board states in a buffer.
BufferDepths(buffer) ==
    {get_depth(nodes[buffer[k]]) : k \in 1 .. Len(buffer)}

\* C11: all board states in one buffer of the layer generator have the same
\* depth, and when both buffers are non-empty the depth of the new
\* generation is the depth of the previous generation plus one.
C11_BuffersHoldOneLayerEach ==
    /\ Cardinality(BufferDepths(generation_1)) <= 1
    /\ Cardinality(BufferDepths(generation_2)) <= 1
    /\ \A new \in BufferDepths(get_new_generation(G)) :
          \A previous \in BufferDepths(get_previous_generation(G)) :
              new = previous + 1

\* C12: next() returns None only when every board state reachable from the
\* root is a finished game or has its children; as long as a reachable
\* unfinished board state without children exists, next() returns Some.
C12_NoneOnlyWhenFullyExpanded ==
    /\ ~next(G).some => FullyExpanded
    /\ ~FullyExpanded => next(G).some

\* try_generate_x_states stopped early, on the None of next(), below an
\* expanded root.
C12_Witness ==
    /\ ret.op = "try_generate_x_states" /\ ret.num < ret.arg
    /\ ~next(G).some
    /\ Len(nodes[board_state].children) > 0

(***************************************************************************)
(* Properties of board states                                              *)
(***************************************************************************)
\* C13: a board state whose game is over has no children, and
\* generate_children on it returns an empty list and changes neither the
\* board state nor the transposition table.
C13_FinishedGameHasNoChildren ==
    \A n \in DOMAIN nodes :
        nodes[n].game_over # "NoWin" =>
            /\ Len(nodes[n].children) = 0
            /\ generate_children(H, n) = [h |-> H, generated |-> << >>]

\* The layer generator has gone over a finished game with empty cells that
\* a rollout had reached before.
C13_Witness ==
    /\ ret.op = "try_generate_x_states"
    /\ FullyExpanded
    /\ \E n \in DOMAIN nodes :
          /\ nodes[n].game_over # "NoWin"
          /\ ~is_full(nodes[n].board)
          /\ nodes[n].rollout_results.total > 0

\* C14: generate_children on a board state that already has children
\* returns an empty list, leaves its child list as it is and creates no
\* table entry, however often it is called.
C14_ExpansionIsIdempotent ==
    /\ [](\A n \in DOMAIN nodes :
            Len(nodes[n].children) > 0 =>
                generate_children(H, n) = [h |-> H, generated |-> << >>])
    /\ [][(ret'.op = "generate_children" /\ ret'.expanded) =>
            (nodes' = nodes /\ table' = table /\ alloc' = alloc)]_vars

\* generate_children was called on a board state that had children.
C14_Witness ==
    /\ ret.op = "generate_children" /\ ret.expanded
    /\ Len(nodes[ret.state].children) > 0

\* The columns of board that are not full, in the order of
\* IDEAL_COLUMNS_FIRST.
OpenColumns(board) ==
    LET IsOpen(col) == get_height(board, col) < BOARD_HEIGHT
    IN  SelectSeq(IDEAL_COLUMNS_FIRST, IsOpen)

\* The board an edge stands for: the child's stored board, mirrored back
\* when the edge is marked Flipped.
EdgeBoard(ns, edge) ==
    IF edge.is_flipped = "Flipped" THEN flip(ns[edge.state].board)
    ELSE ns[edge.state].board

\* In ns the children of n are one edge per open column of n's board, in
\* the order 3,4,2,5,1,6,0, each to a board state of the other turn whose
\* board is n's board with one piece of n's mover on top of that column.
EdgesAsGenerated(ns, n) ==
    /\ Len(ns[n].children) = Len(OpenColumns(ns[n].board))
    /\ \A k \in 1 .. Len(ns[n].children) :
          /\ ns[n].children[k].last_move = OpenColumns(ns[n].board)[k]
          /\ ns[ns[n].children[k].state].turn = ~ns[n].turn
          /\ to_arrays(EdgeBoard(ns, ns[n].children[k])) =
                WithPieceOnTop(to_arrays(ns[n].board),
                               ns[n].children[k].last_move + 1,
                               MoverPiece(ns[n].turn))

\* C15: generate_children on an unfinished board state without children
\* creates one child edge per column that is not full, in the order
\* 3,4,2,5,1,6,0; the child of column c has the other turn and, mirrored
\* back when the edge is Flipped, the parent's board with one piece of the
\* parent's mover on top of column c.
C15_ChildrenPerOpenColumn ==
    [][ret'.op = "try_generate_x_states" =>
          \A n \in DOMAIN nodes :
              (Len(nodes[n].children) = 0 /\ Len(nodes'[n].children) > 0)
                  => EdgesAsGenerated(nodes', n)]_vars

\* A board state was expanded, skipping a full column, with an edge to a
\* child stored in mirrored orientation.
C15_Witness ==
    /\ ret.op = "try_generate_x_states" /\ ret.num > 0
    /\ \E n \in DOMAIN nodes :
          /\ Len(nodes[n].children) \in 1 .. BOARD_WIDTH - 1
          /\ \E k \in 1 .. Len(nodes[n].children) :
                nodes[n].children[k].is_flipped = "Flipped"

(***************************************************************************)
(* Tree analysis (tree_analysis.rs).  The score table is a                 *)
(* TranspositionTable<isize>: a function from keys to scores.              *)
(***************************************************************************)
MaxInt(a, b) == IF a >= b THEN a ELSE b

MinInt(a, b) == IF a <= b THEN a ELSE b

AlphaBetaResult(score, tbl) == [score |-> score, table |-> tbl]

RECURSIVE alpha_beta_pruning(_, _, _, _, _)
RECURSIVE alpha_beta_children(_, _, _, _, _, _, _)

\* The maximizing player's loop body once the child's search (c) returned.
alpha_beta_max(ns, id, k, value, alpha, beta, c) ==
    IF value >= beta
    THEN AlphaBetaResult(value, c.table)
    ELSE alpha_beta_children(ns, id, k + 1, value, MaxInt(alpha, value), beta,
                             c.table)

\* The minimizing player's loop body once the child's search (c) returned.
alpha_beta_min(ns, id, k, value, alpha, beta, c) ==
    IF value <= alpha
    THEN AlphaBetaResult(value, c.table)
    ELSE alpha_beta_children(ns, id, k + 1, value, alpha, MinInt(beta, value),
                             c.table)

alpha_beta_child(ns, id, k, value, alpha, beta, c) ==
    IF ns[id].turn
    THEN alpha_beta_max(ns, id, k, MaxInt(value, c.score), alpha, beta, c)
    ELSE alpha_beta_min(ns, id, k, MinInt(value, c.score), alpha, beta, c)

\* for child in self.children.iter(), from the k-th child on.
alpha_beta_children(ns, id, k, value, alpha, beta, tbl) ==
    IF k > Len(ns[id].children)
    THEN AlphaBetaResult(value, tbl)
    ELSE alpha_beta_child(ns, id, k, value, alpha, beta,
            alpha_beta_pruning(ns, ns[id].children[k].state, alpha, beta, tbl))

\* table.insert(&self.board, value); return value
alpha_beta_insert(board, r) ==
    AlphaBetaResult(r.score, TableInsert(r.table, normal_hash(board), r.score))

alpha_beta_lookup(ns, id, alpha, beta, tbl, t) ==
    IF t.found
    THEN AlphaBetaResult(t.value, tbl)
    ELSE IF Len(ns[id].children) = 0
    THEN alpha_beta_insert(ns[id].board,
            AlphaBetaResult(how_good_is_board(ns[id].board), tbl))
    ELSE alpha_beta_insert(ns[id].board,
            alpha_beta_children(ns, id, 1,
                IF ns[id].turn THEN ISIZE_MIN ELSE ISIZE_MAX,
                alpha, beta, tbl))

\* BoardState::alpha_beta_pruning on the board state in cell id.
alpha_beta_pruning(ns, id, alpha, beta, tbl) ==
    IF ns[id].game_over = "Tie" THEN AlphaBetaResult(0, tbl)
    ELSE IF ns[id].game_over = "OneWins" THEN AlphaBetaResult(ISIZE_MIN, tbl)
    ELSE IF ns[id].game_over = "TwoWins" THEN AlphaBetaResult(ISIZE_MAX, tbl)
    ELSE alpha_beta_lookup(ns, id, alpha, beta, tbl,
                           get_transposed(tbl, ns[id].board))

\* how_good_is looking at the board alone.
how_good_is_of_board(ns, id, tbl) == how_good_is_board(ns[id].board)

\* how_good_is
how_good_is(ns, id, tbl) ==
    alpha_beta_pruning(ns, id, ISIZE_MIN, ISIZE_MAX, tbl).score

\* TranspositionTable::<isize>::default()
EmptyScoreTable == << >>

\* The score cache handed to a search: cleared per search invocation.
score_table == EmptyScoreTable

\* -score on an isize: overflow is set when the negation does not fit (a
\* panic with overflow checks, the wrapped value isize::MIN without).
neg(score) ==
    IF score = ISIZE_MIN
    THEN [score |-> ISIZE_MIN, overflow |-> TRUE]
    ELSE [score |-> 0 - score, overflow |-> FALSE]

\* child_score negating whatever the search returned.
child_score_negating(whose_turn, score) ==
    IF whose_turn
    THEN [score |-> score, overflow |-> FALSE]
    ELSE neg(score)

\* child_score of get_move_scores, given the score of the child's search.
child_score(whose_turn, score) ==
    IF whose_turn
    THEN [score |-> score, overflow |-> FALSE]
    ELSE IF score = ISIZE_MIN THEN [score |-> ISIZE_MAX, overflow |-> FALSE]
    ELSE IF score = ISIZE_MAX THEN [score |-> ISIZE_MIN, overflow |-> FALSE]
    ELSE neg(score)

\* The child whose entry move_scores keeps for col: the last one inserted.
LastChildOf(children, col) ==
    children[CHOOSE k \in 1 .. Len(children) :
                /\ children[k].last_move = col
                /\ \A j \in (k + 1) .. Len(children) :
                      children[j].last_move # col]

\* GameManager::get_move_scores: the map from moves to [score, overflow].
get_move_scores(ns, root) ==
    [col \in {ns[root].children[k].last_move :
                 k \in 1 .. Len(ns[root].children)} |->
        child_score(ns[root].turn,
            how_good_is(ns, LastChildOf(ns[root].children, col).state,
                        score_table))]

(***************************************************************************)
(* The manager with its scores: trees grown by try_generate_x_states and   *)
(* read by get_move_scores and how_good_is.                                *)
(***************************************************************************)
\* Trees of positions with more than MaxOpenCells empty cells are grown up
\* to MaxSearchAlloc cells; the others are finite and grown to the end.
\* Each request asks for SearchX board states.
MaxSearchAlloc == 40

MaxOpenCells == 10

SearchX == 4

\* The second position of tests::correct_predictions (game_manager.rs).
PositionThreat ==
    <<  <<0, 0, 0, 0, 0, 0, 0>>,
        <<0, 0, 0, 0, 0, 0, 0>>,
        <<0, 0, 0, 2, 0, 0, 0>>,
        <<0, 0, 0, 2, 0, 0, 0>>,
        <<0, 0, 0, 2, 0, 0, 0>>,
        <<0, 0, 0, 1, 0, 0, 0>>  >>

\* A position six moves from a full board, first player to move.
PositionCutoff ==
    <<  <<1, 0, 1, 0, 0, 0, 2>>,
        <<2, 1, 1, 2, 0, 0, 2>>,
        <<2, 2, 2, 1, 1, 2, 2>>,
        <<1, 2, 1, 2, 2, 1, 1>>,
        <<1, 2, 1, 1, 1, 2, 2>>,
        <<2, 1, 2, 2, 1, 1, 1>>  >>

\* A position eight moves from a full board, first player to move, where
\* column 0 hands the second player a forced win.
PositionBlunder ==
    <<  <<0, 2, 1, 2, 0, 0, 0>>,
        <<2, 2, 1, 2, 0, 0, 2>>,
        <<2, 1, 2, 1, 0, 1, 2>>,
        <<1, 2, 1, 1, 0, 2, 1>>,
        <<1, 2, 2, 2, 1, 1, 1>>,
        <<1, 1, 2, 1, 2, 1, 2>>  >>

OpenCells(board) == BOARD_WIDTH * BOARD_HEIGHT - get_depth_of(board)

SearchManagers ==
    { start_from_position(PositionDrops, FALSE),
      start_from_position(PositionDrops, TRUE),
      start_from_position(PositionThreat, FALSE),
      start_from_position(PositionThreat, TRUE),
      start_from_position(PositionCutoff, FALSE),
      start_from_position(PositionBlunder, FALSE) }

InitSearch ==
    \E m \in SearchManagers :
        /\ nodes = m.g.h.nodes
        /\ table = m.g.h.table
        /\ alloc = m.g.h.alloc
        /\ panic = m.g.h.panic
        /\ generation_1 = m.g.generation_1
        /\ generation_2 = m.g.generation_2
        /\ generation_1_is_new = m.g.generation_1_is_new
        /\ board_state = m.board_state
        /\ held = {}
        /\ app = NoApp
        /\ ret = Returned("start_from_position", 0, "Ok", 0, FALSE, FALSE)

SearchTryGenerate(x) ==
    /\ panic = "none"
    /\ \/ alloc <= MaxSearchAlloc
       \/ OpenCells(nodes[board_state].board) <= MaxOpenCells
    /\ TryGenerateDone(x, try_generate_x_states(G, x))
    /\ UNCHANGED <<board_state, held, app>>

\* manager.get_move_scores()
GetMoveScores ==
    /\ panic = "none"
    /\ ret' = [op |-> "get_move_scores",
               scores |-> get_move_scores(nodes, board_state)]
    /\ UNCHANGED <<nodes, table, alloc, panic, board_state, generation_1,
                   generation_2, generation_1_is_new, held, app>>

\* how_good_is(&board_state.borrow(), &mut TranspositionTable::default())
HowGoodIs ==
    /\ panic = "none"
    /\ ret' = [op |-> "how_good_is",
               score |-> how_good_is(nodes, board_state, EmptyScoreTable)]
    /\ UNCHANGED <<nodes, table, alloc, panic, board_state, generation_1,
                   generation_2, generation_1_is_new, held, app>>

NextSearch ==
    \/ \E x \in {1, SearchX} : SearchTryGenerate(x)
    \/ GetMoveScores
    \/ HowGoodIs

SpecSearch == InitSearch /\ [][NextSearch]_vars

(***************************************************************************)
(* Properties of the search                                                *)
(***************************************************************************)
RECURSIVE Minimax(_, _)
RECURSIVE MinimaxChildren(_, _, _, _)

\* Plain minimax over the tree below the board state in cell id: no window,
\* no cache.
MinimaxChildren(ns, id, k, value) ==
    IF k > Len(ns[id].children)
    THEN value
    ELSE MinimaxChildren(ns, id, k + 1,
            IF ns[id].turn
            THEN MaxInt(value, Minimax(ns, ns[id].children[k].state))
            ELSE MinInt(value, Minimax(ns, ns[id].children[k].state)))

Minimax(ns, id) ==
    IF ns[id].game_over = "Tie" THEN 0
    ELSE IF ns[id].game_over = "OneWins" THEN ISIZE_MIN
    ELSE IF ns[id].game_over = "TwoWins" THEN ISIZE_MAX
    ELSE IF Len(ns[id].children) = 0 THEN how_good_is_board(ns[id].board)
    ELSE MinimaxChildren(ns, id, 1,
                         IF ns[id].turn THEN ISIZE_MIN ELSE ISIZE_MAX)

\* C8: on an exhaustively expanded tree how_good_is(root), searched with an
\* empty score table, equals plain minimax over the same tree.
C8_AlphaBetaEqualsMinimax ==
    (ret.op = "how_good_is" /\ FullyExpanded)
        => ret.score = Minimax(nodes, board_state)

\* The root's children, as the set of their positions in the list.
RootChildren == 1 .. Len(nodes[board_state].children)

\* The root is the second position of tests::correct_predictions with the
\* first player to move, and every move of the first player has been
\* expanded: the tree holds the second player's vertical four.
ThreatExpanded ==
    /\ nodes[board_state].board = from_arrays(PositionThreat)
    /\ ~nodes[board_state].turn
    /\ RootChildren # {}
    /\ \A k \in RootChildren :
          Len(nodes[nodes[board_state].children[k].state].children) > 0
    /\ \E n \in Reach(nodes, {board_state}) : nodes[n].game_over = "TwoWins"

\* C17 as stated: with the vertical four in the tree, column 3 has the
\* minimal score of get_move_scores.
C17_ColumnThreeIsMinimal ==
    (ret.op = "get_move_scores" /\ ThreatExpanded)
        => \A col \in DOMAIN ret.scores :
              ret.scores[3].score <= ret.scores[col].score

\* C17: with the vertical four in the tree below every other column,
\* column 3 is the only move that is not losing: its score is not
\* isize::MIN and the score of every other column is.
C17_ColumnThreeIsTheOnlyDefence ==
    (ret.op = "get_move_scores" /\ ThreatExpanded)
        => \A col \in DOMAIN ret.scores :
              (col = 3) <=> (ret.scores[col].score # ISIZE_MIN)

C17_Witness ==
    /\ ret.op = "get_move_scores"
    /\ ThreatExpanded
    /\ DOMAIN ret.scores = 0 .. 6
    /\ ret.scores[3].score > ISIZE_MIN
    /\ ret.scores[4].score = ISIZE_MIN

\* The score of the search that get_move_scores re-orients for col.
SearchedScore(col) ==
    how_good_is(nodes,
                LastChildOf(nodes[board_state].children, col).state,
                EmptyScoreTable)

\* C18: get_move_scores re-orients without overflow: for the first player
\* isize::MIN becomes isize::MAX, isize::MAX becomes isize::MIN and any other
\* score s becomes -s; for the second player the score is unchanged.
C18_ReorientationNeverOverflows ==
    ret.op = "get_move_scores"
        => \A col \in DOMAIN ret.scores :
              /\ ~ret.scores[col].overflow
              /\ ret.scores[col].score =
                    IF nodes[board_state].turn THEN SearchedScore(col)
                    ELSE IF SearchedScore(col) = ISIZE_MIN THEN ISIZE_MAX
                    ELSE IF SearchedScore(col) = ISIZE_MAX THEN ISIZE_MIN
                    ELSE 0 - SearchedScore(col)

C18_Witness ==
    /\ ret.op = "get_move_scores"
    /\ ~nodes[board_state].turn
    /\ \E col \in DOMAIN ret.scores : SearchedScore(col) = ISIZE_MIN
    /\ \E col \in DOMAIN ret.scores : SearchedScore(col) = 0

\* The score of an outcome for the player whose turn it is at the root.
WinOf(turn) == IF turn THEN ISIZE_MAX ELSE ISIZE_MIN

\* The child of the root that get_move_scores scores for col.
ScoredChild(col) == LastChildOf(nodes[board_state].children, col).state

\* C16: get_move_scores has one entry per child column of the root; a move
\* that wins at once scores isize::MAX; on a fully expanded tree a move into
\* a forced tie scores 0; a move after which the opponent can force a win
\* inside the tree scores isize::MIN, and a move after which the opponent
\* cannot does not.
C16_ScoresOrientedToMover ==
    ret.op = "get_move_scores"
        => /\ DOMAIN ret.scores =
                {nodes[board_state].children[k].last_move : k \in RootChildren}
           /\ \A col \in DOMAIN ret.scores :
                /\ nodes[ScoredChild(col)].game_over
                        = (IF nodes[board_state].turn THEN "TwoWins" ELSE "OneWins")
                     => ret.scores[col].score = ISIZE_MAX
                /\ (FullyExpanded /\ Minimax(nodes, ScoredChild(col)) = 0)
                     => ret.scores[col].score = 0
                /\ Minimax(nodes, ScoredChild(col)) = WinOf(~nodes[board_state].turn)
                     <=> ret.scores[col].score = ISIZE_MIN

(***************************************************************************)
(* Properties of the outcome                                               *)
(***************************************************************************)
Directions == {<<1, 0>>, <<0, 1>>, <<1, 1>>, <<1, 0 - 1>>}

\* NUMBER_TO_WIN pieces of color from (col, row) on in direction d.
FourFrom(board, color, col, row, d) ==
    \A i \in 0 .. NUMBER_TO_WIN - 1 :
        /\ col + i * d[1] \in Columns
        /\ row + i * d[2] \in 0 .. BOARD_HEIGHT - 1
        /\ get_piece(board, col + i * d[1], row + i * d[2]) = Ok(color)

HasFourInARow(board, color) ==
    \E col \in Columns, row \in 0 .. BOARD_HEIGHT - 1, d \in Directions :
        FourFrom(board, color, col, row, d)

NoEmptyCell(board) ==
    \A col \in Columns, row \in 0 .. BOARD_HEIGHT - 1 :
        get_piece(board, col, row) # OutOfBounds

\* The outcome of a board state as the claim derives it from the board and
\* the player who just moved (the opponent of bs.turn).
OutcomeAsDerived(bs) ==
    bs.game_over =
        IF HasFourInARow(bs.board, ~bs.turn)
        THEN (IF bs.turn THEN "OneWins" ELSE "TwoWins")
        ELSE IF NoEmptyCell(bs.board) THEN "Tie"
        ELSE "NoWin"

\* C19: a board state's outcome is the win of the player who just moved
\* exactly when that player has four in a row, else Tie exactly when the
\* board is full, else NoWin: for the root and for every board state a step
\* constructs.
C19_OutcomeFromBoardAndMover ==
    /\ []OutcomeAsDerived(nodes[board_state])
    /\ [][\A n \in (DOMAIN nodes') \ (DOMAIN nodes) :
             OutcomeAsDerived(nodes'[n])]_vars

\* A full board that is a tie and a full board that is a win are in the tree.
C19_Witness ==
    /\ \E n \in DOMAIN nodes :
          is_full(nodes[n].board) /\ nodes[n].game_over = "Tie"
    /\ \E n \in DOMAIN nodes :
          is_full(nodes[n].board) /\ nodes[n].game_over \in {"OneWins", "TwoWins"}

(***************************************************************************)
(* A game played from the empty board: the two players move in turn in the *)
(* columns PlayColumns, up to MaxPieces pieces, and the tree below the     *)
(* last position is grown while it holds at most MaxPlayNodes board states.*)
(***************************************************************************)
MaxPieces == 7

MaxPlayNodes == 8

PlayColumns == {0, 1, 3}

InitPlay ==
    /\ nodes = new_game.g.h.nodes
    /\ table = new_game.g.h.table
    /\ alloc = new_game.g.h.alloc
    /\ panic = new_game.g.h.panic
    /\ generation_1 = new_game.g.generation_1
    /\ generation_2 = new_game.g.generation_2
    /\ generation_1_is_new = new_game.g.generation_1_is_new
    /\ board_state = new_game.board_state
    /\ held = {}
    /\ app = NoApp
    /\ ret = Returned("new_game", 0, "Ok", 0, FALSE, FALSE)

PlayMakeMove(col) ==
    /\ panic = "none"
    /\ get_depth(nodes[board_state]) < MaxPieces
    /\ MakeMoveDone(col, make_move(G, board_state, col))
    /\ UNCHANGED <<board_state, held, app>>

PlayTryGenerate(x) ==
    /\ panic = "none"
    /\ get_depth(nodes[board_state]) >= MaxPieces
    /\ Cardinality(DOMAIN nodes) <= MaxPlayNodes
    /\ TryGenerateDone(x, try_generate_x_states(G, x))
    /\ UNCHANGED <<board_state, held, app>>

NextPlay ==
    \/ \E col \in PlayColumns : PlayMakeMove(col)
    \/ PlayTryGenerate(1)

SpecPlay == InitPlay /\ [][NextPlay]_vars

\* C20: on no board of the game, the position or a board state of the tree
\* below it, have both players four in a row.
C20_NeverBothWon ==
    \A n \in DOMAIN nodes :
        ~(has_color_won(nodes[n].board, TRUE)
            /\ has_color_won(nodes[n].board, FALSE))

\* The game has ended with a four in a row while the loser had three in a
\* column with the cell above them empty.
C20_Witness ==
    /\ nodes[board_state].game_over = "OneWins"
    /\ has_color_won(nodes[board_state].board, FALSE)
    /\ \E col \in Columns :
          /\ get_height(nodes[board_state].board, col) = 3
          /\ \A row \in 0 .. 2 :
                get_piece(nodes[board_state].board, col, row) = Ok(TRUE)

(***************************************************************************)
(* A board on its own (board.rs): built by from_arrays, then changed by    *)
(* drop_piece and flip and read by get_piece and to_arrays.  ret.board is  *)
(* the board and ret.drops the number of drop_piece calls so far.          *)
(***************************************************************************)
MaxDrops == 1

\* The position of tests::board_translation (game_manager.rs).
PositionTranslation ==
    <<  <<0, 0, 0, 0, 0, 0, 2>>,
        <<0, 0, 0, 0, 0, 0, 2>>,
        <<0, 0, 0, 0, 0, 0, 1>>,
        <<0, 2, 0, 0, 0, 2, 1>>,
        <<0, 1, 2, 0, 0, 1, 2>>,
        <<0, 1, 2, 0, 2, 1, 2>>  >>

\* A position with no piece above the third row in which one drop completes
\* a column, a row or a diagonal.
PositionLow ==
    <<  <<0, 0, 0, 0, 0, 0, 0>>,
        <<0, 0, 0, 0, 0, 0, 0>>,
        <<0, 0, 0, 0, 0, 0, 0>>,
        <<0, 0, 2, 1, 0, 0, 2>>,
        <<0, 2, 1, 1, 0, 0, 2>>,
        <<2, 1, 1, 1, 0, 0, 2>>  >>

BoardArrays ==
    {PositionTranslation, PositionThreat, PositionCutoff, PositionBlunder,
     PositionLow}

BoardUnchanged ==
    UNCHANGED <<nodes, table, alloc, panic, board_state, generation_1,
                generation_2, generation_1_is_new, held, app>>

InitBoard ==
    /\ nodes = << >>
    /\ table = << >>
    /\ alloc = 1
    /\ panic = "none"
    /\ board_state = 0
    /\ generation_1 = << >>
    /\ generation_2 = << >>
    /\ generation_1_is_new = FALSE
    /\ held = {}
    /\ app = NoApp
    /\ \E arrays \in BoardArrays :
          ret = [op |-> "from_arrays", arrays |-> arrays,
                 board |-> from_arrays(arrays), drops |-> 0]

DropPieceDone(col, color, r) ==
    ret' = [op |-> "drop_piece", col |-> col, color |-> color, ok |-> r.ok,
            board |-> r.board, drops |-> ret.drops + 1]

\* board.drop_piece(col, color)
DropPiece(col, color) ==
    /\ ret.drops < MaxDrops
    /\ DropPieceDone(col, color, drop_piece(ret.board, col, color))
    /\ BoardUnchanged

\* board.flip()
Flip ==
    /\ ret' = [op |-> "flip", board |-> flip(ret.board), drops |-> ret.drops]
    /\ BoardUnchanged

\* board.get_piece(col, row)
GetPiece(col, row) ==
    /\ ret' = [op |-> "get_piece", col |-> col, row |-> row,
               piece |-> get_piece(ret.board, col, row),
               board |-> ret.board, drops |-> ret.drops]
    /\ BoardUnchanged

\* board.to_arrays()
ToArrays ==
    /\ ret' = [op |-> "to_arrays", arrays |-> to_arrays(ret.board),
               board |-> ret.board, drops |-> ret.drops]
    /\ BoardUnchanged

NextBoard ==
    \/ \E col \in Columns, color \in BOOLEAN : DropPiece(col, color)
    \/ Flip
    \/ \E col \in Columns, row \in 0 .. BOARD_HEIGHT : GetPiece(col, row)
    \/ ToArrays

SpecBoard == InitBoard /\ [][NextBoard]_vars

(***************************************************************************)
(* Properties of the board                                                 *)
(***************************************************************************)
\* The win check and the heuristic give the same on board and on flipped,
\* its mirror image.
SameUnderFlip(board, flipped) ==
    /\ has_color_won(flipped, TRUE) = has_color_won(board, TRUE)
    /\ has_color_won(flipped, FALSE) = has_color_won(board, FALSE)
    /\ how_good_is_board(flipped) = how_good_is_board(board)

\* C21: for every board b and colour c, has_color_won(flip(b), c) =
\* has_color_won(b, c) and how_good_is_board(flip(b)) = how_good_is_board(b).
C21_FlipKeepsWinAndHeuristic ==
    [][ret'.op = "flip" => SameUnderFlip(ret.board, ret'.board)]_vars

\* A board was flipped into a different one on which a player has four in a
\* row along a diagonal only, and the heuristic is not 0.
C21_Witness ==
    /\ ret.op = "flip"
    /\ flip(ret.board) # ret.board
    /\ \E color \in BOOLEAN :
          /\ has_color_won(ret.board, color)
          /\ ~has_color_won_horizontally(ret.board, color)
          /\ ~has_color_won_vertically(ret.board, color)
    /\ how_good_is_board(ret.board) # 0

(***************************************************************************)
(* Properties of the rollouts                                              *)
(***************************************************************************)
\* The number of children of the root that are the board state in cell n:
\* generate_rollouts starts one rollout from each that is not finished.
RootEdges(n) ==
    Cardinality({k \in 1 .. Len(nodes[board_state].children) :
                    nodes[board_state].children[k].state = n})

TotalGained(n) ==
    nodes'[n].rollout_results.total - nodes[n].rollout_results.total

SuccessGained(n) ==
    nodes'[n].rollout_results.success - nodes[n].rollout_results.success

\* A generate_rollouts that returned.
RolloutsReturned == ret'.op = "generate_rollouts" /\ ret'.result = "Ok"

\* C22: every total is even and no success exceeds its total; rollouts lower
\* no counter, and a child of the root, which is on the path of exactly the
\* rollouts that generate_rollouts starts from it, gains 2 per rollout.
C22_TotalIsTwiceTheRollouts ==
    /\ [](\A n \in DOMAIN nodes :
            /\ nodes[n].rollout_results.total % 2 = 0
            /\ nodes[n].rollout_results.success <= nodes[n].rollout_results.total)
    /\ [][RolloutsReturned =>
            \A n \in DOMAIN nodes :
                /\ n \in DOMAIN nodes'
                /\ TotalGained(n) >= 0
                /\ SuccessGained(n) >= 0
                /\ (nodes[n].game_over = "NoWin" /\ RootEdges(n) > 0)
                     => TotalGained(n) = 2 * RootEdges(n)]_vars

\* C23: a finished board state is on the path of a rollout only as its end,
\* and the player to move there is the loser of a win: each rollout that
\* ends in it gives it +2 success of +2 total when it is a win and +1
\* success of +2 total when it is a tie.
C23_SuccessGoesToTheLosersTurn ==
    [][RolloutsReturned =>
          \A n \in DOMAIN nodes :
              /\ nodes[n].game_over \in {"OneWins", "TwoWins"}
                    => SuccessGained(n) = TotalGained(n)
              /\ nodes[n].game_over = "Tie"
                    => 2 * SuccessGained(n) = TotalGained(n)]_vars

\* The children of the board state in cell n that no rollout has visited.
NeverVisited(n) ==
    {k \in 1 .. Len(nodes[n].children) :
        nodes[nodes[n].children[k].state].rollout_results.total = 0}

\* C24: selection on a board state with children descends into a child of
\* the highest UCB1 score and completes when some of the children were never
\* visited; stated here for the completion: generate_rollouts on a root with
\* an unfinished child that has never-visited children returns.
C24_SelectionTakesHighestAndCompletes ==
    [][(ret'.op = "generate_rollouts"
          /\ \E k \in 1 .. Len(nodes[board_state].children) :
                LET c == nodes[board_state].children[k].state
                IN  nodes[c].game_over = "NoWin" /\ NeverVisited(c) # {})
        => ret'.result = "Ok"]_vars

\* The value of a cell in a grid: 0 = empty, 1 = first player, 2 = second.
CellValue(piece) == IF ~piece.ok THEN 0 ELSE IF piece.val THEN 2 ELSE 1

\* ret holds a grid and the board it was exchanged for.
GridExchanged == ret.op \in {"from_arrays", "to_arrays"}

\* C25 as stated: row index 0 of the grid is the bottom row of the board.
C25_RowZeroIsBottom ==
    GridExchanged
        => \A col \in Columns, row \in 0 .. BOARD_HEIGHT - 1 :
              ret.arrays[row + 1][col + 1]
                  = CellValue(get_piece(ret.board, col, row))

\* C25: row index 0 of the grid is the top row of the board and the cell
\* values are 0 = empty, 1 = first player, 2 = second player: the piece in
\* row r of column c is at grid[BOARD_HEIGHT - 1 - r][c].
C25_RowZeroIsTop ==
    GridExchanged
        => \A col \in Columns, row \in 0 .. BOARD_HEIGHT - 1 :
              ret.arrays[BOARD_HEIGHT - row][col + 1]
                  = CellValue(get_piece(ret.board, col, row))

\* to_arrays gave the grid of a board that a drop changed, with pieces of
\* both players at the bottom and an empty top row.
C25_Witness ==
    /\ ret.op = "to_arrays"
    /\ ret.drops > 0
    /\ \E col \in Columns : ret.arrays[BOARD_HEIGHT][col + 1] = 1
    /\ \E col \in Columns : ret.arrays[BOARD_HEIGHT][col + 1] = 2
    /\ \A col \in Columns : ret.arrays[1][col + 1] = 0

\* What drop_piece(col, color) made of board: after is the board it left
\* and ok whether it returned Ok.
DropAsClaimed(board, col, color, ok, after) ==
    IF get_height(board, col) = BOARD_HEIGHT
    THEN ~ok /\ after = board
    ELSE /\ ok
         /\ get_height(after, col) = get_height(board, col) + 1
         /\ get_piece(after, col, get_height(board, col)) = Ok(color)
         /\ \A c \in Columns, r \in 0 .. BOARD_HEIGHT - 1 :
                (c # col \/ r # get_height(board, col))
                    => get_piece(after, c, r) = get_piece(board, c, r)
         /\ \A c \in Columns \ {col} :
                /\ after.column_heights[c + 1] = board.column_heights[c + 1]
                /\ after.column_bitmaps[c + 1] = board.column_bitmaps[c + 1]

\* C26: get_piece(col, row) is OutOfBounds exactly when row >= height(col);
\* drop_piece(col, color) is FullColumn exactly when the column is full and
\* then changes nothing; otherwise it raises that column's height by one,
\* puts color on top of it and changes no other cell and no other column.
C26_GetPieceAndDropPiece ==
    [][/\ ret'.op = "get_piece"
            => (ret'.piece = OutOfBounds
                    <=> ret'.row >= get_height(ret.board, ret'.col))
       /\ ret'.op = "drop_piece"
            => DropAsClaimed(ret.board, ret'.col, ret'.color, ret'.ok,
                             ret'.board)]_vars

\* A piece of the second player was dropped on a piece of the first.
C26_Witness ==
    /\ ret.op = "drop_piece"
    /\ ret.ok
    /\ ret.color
    /\ get_height(ret.board, ret.col) >= 2
    /\ get_piece(ret.board, ret.col, get_height(ret.board, ret.col) - 2)
          = Ok(FALSE)


(***************************************************************************)
(* Properties of the restart                                               *)
(***************************************************************************)
\* The board states in a buffer.
BufferStates(buffer) == {buffer[k] : k \in 1 .. Len(buffer)}

\* The unfinished board states without children that the root reaches.
BottomOfTree ==
    {n \in Reach(nodes, {board_state}) :
        Len(nodes[n].children) = 0 /\ nodes[n].game_over = "NoWin"}

\* make_move has narrowed the tree and restarted the layer generator.
Restarted == ret.op = "make_move" /\ ret.result = "Ok" /\ panic = "none"

\* C27: after the restart that follows a move the two buffers hold exactly
\* the unfinished board states without children that the new root reaches;
\* each buffer holds one depth, the previous generation the shallower one,
\* and a single depth is the previous generation.
C27_RestartFindsTheBottomLayers ==
    Restarted =>
        /\ BufferStates(generation_1) \cup BufferStates(generation_2)
              = BottomOfTree
        /\ Cardinality(BufferDepths(get_previous_generation(G))) <= 1
        /\ Cardinality(BufferDepths(get_new_generation(G))) <= 1
        /\ \A previous \in BufferDepths(get_previous_generation(G)) :
              \A new \in BufferDepths(get_new_generation(G)) :
                  previous < new
        /\ BottomOfTree # {} => Len(get_previous_generation(G)) > 0


\* The restart found two layers below the new root, which has children that
\* were expanded before the move, and the move discarded board states.
C27_Witness ==
    /\ Restarted
    /\ Len(generation_1) > 0
    /\ Len(generation_2) > 0
    /\ \E n \in Reach(nodes, {board_state}) \ {board_state} :
          Len(nodes[n].children) > 0
    /\ \E k \in DOMAIN table : table[k] \notin DOMAIN nodes

(***************************************************************************)
(* Properties of next()                                                    *)
(***************************************************************************)
\* r is what next() returned on the generator g whose previous generation
\* is not empty: the last board state of the previous generation is gone
\* from it and expanded, its children are appended to the new generation
\* and counted, and the buffers keep their roles.
PoppedAndExpanded(g, popped, r) ==
    /\ r.some
    /\ r.g.generation_1_is_new = g.generation_1_is_new
    /\ get_previous_generation(r.g)
          = SubSeq(get_previous_generation(g), 1,
                   Len(get_previous_generation(g)) - 1)
    /\ g.h.nodes[popped].game_over = "NoWin"
          => Len(r.g.h.nodes[popped].children) > 0
    /\ get_new_generation(r.g)
          = get_new_generation(g) \o ChildHandles(r.g.h.nodes[popped])
    /\ r.num = Len(r.g.h.nodes[popped].children)

\* The generator after the exchange of the roles of its buffers.
Swapped(g) == [g EXCEPT !.generation_1_is_new = ~g.generation_1_is_new]

\* C28: a next() that finds the previous generation non-empty removes one
\* board state from it, expands it, appends its children to the new
\* generation and returns their number; the roles of the buffers are
\* exchanged only when the previous generation is empty and the new one is
\* not, and next() then goes on as on the exchanged buffers.
C28_NextTakesOneFromTheOlderBuffer ==
    panic = "none" =>
        /\ Len(get_previous_generation(G)) > 0 =>
              PoppedAndExpanded(G,
                    get_previous_generation(G)[Len(get_previous_generation(G))],
                    next(G))
        /\ (Len(get_previous_generation(G)) = 0
                    /\ Len(get_new_generation(G)) > 0) =>
              PoppedAndExpanded(Swapped(G),
                    get_new_generation(G)[Len(get_new_generation(G))],
                    next(G))
        /\ next(G).g.generation_1_is_new # generation_1_is_new =>
              (Len(get_previous_generation(G)) = 0
                    /\ Len(get_new_generation(G)) > 0)


(***************************************************************************)
(* The layer generator called one next() at a time, on positions whose     *)
(* trees are small enough to be generated to the end.                      *)
(***************************************************************************)
\* A position that is its own mirror image, with two cells left in columns
\* 0 and 6 and one in column 3.
PositionMirror ==
    <<  <<0, 1, 2, 0, 2, 1, 0>>,
        <<0, 2, 1, 2, 1, 2, 0>>,
        <<2, 2, 1, 1, 1, 2, 2>>,
        <<1, 1, 2, 1, 2, 1, 1>>,
        <<2, 1, 1, 2, 1, 1, 2>>,
        <<2, 2, 1, 1, 1, 2, 2>>  >>

NextManagers ==
    { start_from_position(PositionWinning, FALSE),
      start_from_position(PositionMirror, FALSE) }

InitNext ==
    \E m \in NextManagers :
        /\ nodes = m.g.h.nodes
        /\ table = m.g.h.table
        /\ alloc = m.g.h.alloc
        /\ panic = m.g.h.panic
        /\ generation_1 = m.g.generation_1
        /\ generation_2 = m.g.generation_2
        /\ generation_1_is_new = m.g.generation_1_is_new
        /\ board_state = m.board_state
        /\ held = {}
        /\ app = NoApp
        /\ ret = Returned("start_from_position", 0, "Ok", 0, FALSE, FALSE)

NextCallDone(r) ==
    /\ Store(r.g)
    /\ ret' = Returned("next", 0, IF r.some THEN "Some" ELSE "None", r.num,
                       FALSE, FALSE)

\* self.layer_generator.next()
NextCall ==
    /\ panic = "none"
    /\ NextCallDone(next(G))
    /\ UNCHANGED <<board_state, held, app>>

NextMakeMove(col) ==
    /\ panic = "none"
    /\ MakeMoveDone(col, make_move(G, board_state, col))
    /\ UNCHANGED <<board_state, held, app>>

NextNext ==
    \/ NextCall
    \/ \E col \in Columns : NextMakeMove(col)

\* ENABLED <<NextCall>>_vars as a state predicate: a call of next() changes
\* the state unless it returns None right after a call that returned None.
NextCallEnabled ==
    panic = "none" /\ ret # Returned("next", 0, "None", 0, FALSE, FALSE)

\* The steps of NextCall that change the state.
NextCalled == ret'.op = "next"

\* The caller goes on calling next(): weak fairness of NextCall, which is
\* WF_vars(NextCall) written with NextCallEnabled for the ENABLED.
SpecNext ==
    /\ InitNext
    /\ [][NextNext]_vars
    /\ ([]<>~NextCallEnabled \/ []<><<NextCalled>>_vars)

\* A call of next() would return None.
Exhausted == ~next(G).some

\* C29: next() called again and again returns None in the end, and once it
\* has returned None it returns None at every call until the generator is
\* restarted.
C29_GenerationTerminates ==
    /\ <>[]Exhausted
    /\ [][(Exhausted /\ ret'.op = "next")
            => (ret'.result = "None" /\ Exhausted')]_vars

\* next() has returned None after it had generated board states.
C29_Witness ==
    /\ ret.op = "next"
    /\ ret.result = "None"
    /\ Len(nodes[board_state].children) > 0


(***************************************************************************)
(* Properties of the table's assertion                                     *)
(***************************************************************************)
\* What the table answers for the board after a piece of the mover of board
\* state n on column col, when that column is not full.
HitFor(n, col) ==
    get_transposed(table, drop_piece(nodes[n].board, col, nodes[n].turn).board)

\* Every live hit that the expansion of a live board state would get has
\* the turn the expansion asks for.
EveryHitHasTheTurnAskedFor ==
    \A n \in DOMAIN nodes, col \in Columns :
        (/\ nodes[n].game_over = "NoWin"
         /\ get_height(nodes[n].board, col) < BOARD_HEIGHT
         /\ HitFor(n, col).found
         /\ Upgrades(H, HitFor(n, col).value))
            => nodes[HitFor(n, col).value].turn = ~nodes[n].turn

\* C30: in a game started by new_game or start_from_position and driven by
\* try_generate_x_states and make_move the assertion of get_board_state on
\* the turn never fails: every live hit, under the natural or the mirrored
\* hash, has the turn that was asked for, also after moves have narrowed
\* the tree and flipped board states in place.
C30_TurnAssertionHolds ==
    /\ panic # "turn_assert"
    /\ EveryHitHasTheTurnAskedFor

\* A board state reached over two edges.
SharedCell(n) ==
    Cardinality({e \in (DOMAIN nodes) \X (1 .. BOARD_WIDTH) :
                    /\ e[2] <= Len(nodes[e[1]].children)
                    /\ nodes[e[1]].children[e[2]].state = n}) >= 2

\* After a move over a mirrored edge, which flipped the new root in place
\* (its table entry is under the hash of the mirrored board), next() has
\* expanded board states below the new root and the table has answered with
\* a live board state.
C30_Witness ==
    /\ ret.op = "next"
    /\ ret.num > 0
    /\ flipped_hash(nodes[board_state].board) \in DOMAIN table
    /\ normal_hash(nodes[board_state].board) \notin DOMAIN table
    /\ \E n \in Reach(nodes, {board_state}) : SharedCell(n)


(***************************************************************************)
(* Properties of the narrowing                                             *)
(***************************************************************************)
\* In ns, edge k of board state n stands for n's board with one piece of
\* n's mover on top of the edge's column.
EdgeLeadsOnePieceOn(ns, n, k) ==
    to_arrays(EdgeBoard(ns, ns[n].children[k])) =
        WithPieceOnTop(to_arrays(ns[n].board),
                       ns[n].children[k].last_move + 1,
                       MoverPiece(ns[n].turn))

\* The edge of the root that make_move(col) follows.
ChosenEdge(col) ==
    nodes[board_state].children[FirstChildFor(nodes[board_state].children, col)]

\* after is before mirrored: the board flipped, every edge with its column
\* replaced by 6 - column and its flag toggled, to the same board state.
MirroredInPlace(before, after) ==
    /\ after.board = flip(before.board)
    /\ Len(after.children) = Len(before.children)
    /\ \A j \in 1 .. Len(before.children) :
          /\ after.children[j].state = before.children[j].state
          /\ after.children[j].last_move = 6 - before.children[j].last_move
          /\ after.children[j].is_flipped # before.children[j].is_flipped

\* C31: a make_move that narrows to a child over an edge marked Flipped
\* mirrors the child in place, board and edges, and one over a Normal edge
\* leaves the child as it is; afterwards every edge of the new root stands
\* for the root's board plus one piece in the edge's column.
C31_NarrowingUnflipsTheChild ==
    [][(ret'.op = "make_move" /\ ret'.result = "Ok") =>
          /\ ~ret'.pregen =>
                IF ChosenEdge(ret'.arg).is_flipped = "Flipped"
                THEN MirroredInPlace(nodes[ChosenEdge(ret'.arg).state],
                                     nodes'[board_state])
                ELSE nodes'[board_state] = nodes[ChosenEdge(ret'.arg).state]
          /\ \A k \in 1 .. Len(nodes'[board_state].children) :
                EdgeLeadsOnePieceOn(nodes', board_state, k)]_vars

\* A move over a Flipped edge to a child that had children: the edges of
\* the new root are the child's, mirrored.
C31_Witness ==
    /\ ret.op = "make_move" /\ ret.result = "Ok"
    /\ ret.flipped /\ ~ret.pregen
    /\ \E k \in 1 .. Len(nodes[board_state].children) :
          nodes[board_state].children[k].is_flipped = "Flipped"

(***************************************************************************)
(* Properties of the win check                                             *)
(***************************************************************************)
\* C32: has_color_won(board, color) is true exactly when four cells in a
\* row of a row, a column or a diagonal hold color; neither the gating on
\* the maximal height, nor the strips' bounds, nor the early exit hides a
\* four in a row.
C32_WinIsFourInARow ==
    \A color \in BOOLEAN :
        has_color_won(ret.board, color) <=> HasFourInARow(ret.board, color)

\* The board after a drop that completed a four in a row of a column or a
\* diagonal, and no four in a row of a row, with no piece above the fourth
\* row.
C32_Witness ==
    /\ ret.op = "drop_piece" /\ ret.ok
    /\ get_max_height(ret.board) = NUMBER_TO_WIN
    /\ has_color_won(ret.board, ret.color)
    /\ ~has_color_won_horizontally(ret.board, ret.color)


(***************************************************************************)
(* Properties of the heuristic                                             *)
(***************************************************************************)
\* The windows of NUMBER_TO_WIN cells of the board: <<col, row, d>> with the
\* first cell and the direction.
Windows ==
    {w \in Columns \X (0 .. BOARD_HEIGHT - 1) \X Directions :
        /\ w[1] + (NUMBER_TO_WIN - 1) * w[3][1] \in Columns
        /\ w[2] + (NUMBER_TO_WIN - 1) * w[3][2] \in 0 .. BOARD_HEIGHT - 1}

\* The pieces of color in window w.
PiecesIn(board, w, color) ==
    Cardinality({i \in 0 .. NUMBER_TO_WIN - 1 :
        get_piece(board, w[1] + i * w[3][1], w[2] + i * w[3][2]) = Ok(color)})

\* The windows that hold k pieces of color and none of the other colour.
WindowsOf(board, color, k) ==
    Cardinality({w \in Windows : /\ PiecesIn(board, w, color) = k
                                 /\ PiecesIn(board, w, ~color) = 0})

RECURSIVE WindowSum(_, _)
WindowSum(board, k) ==
    IF k > NUMBER_TO_WIN THEN 0
    ELSE Pow(SCALING_HEURISTIC, k - 1)
            * (WindowsOf(board, TRUE, k) - WindowsOf(board, FALSE, k))
         + WindowSum(board, k + 1)

\* C33: the heuristic of a board is the sum over the windows of four cells
\* in the four directions of +10^(k-1) for a window with k >= 1 pieces of
\* the second player and none of the first, -10^(k-1) for one with k >= 1
\* pieces of the first player and none of the second, and 0 for the others;
\* a strip of fewer than four cells counts as one window.
C33_HeuristicSumsTheWindows ==
    /\ score_by_closeness_to_win(ret.board) = WindowSum(ret.board, 1)
    /\ score_circle_buffer(<<Ok(TRUE), OutOfBounds, Ok(FALSE)>>) = 0
    /\ score_circle_buffer(<<Ok(TRUE), Ok(TRUE)>>) = SCALING_HEURISTIC
    /\ score_circle_buffer(<< >>) = 0

\* The board of tests::scoring_board, whose heuristic is 132, after a piece
\* of the first player was dropped next to the column.
C33_Witness ==
    /\ ret.op = "drop_piece" /\ ret.ok /\ ~ret.color
    /\ ret.col = 2
    /\ to_arrays(drop_piece(from_arrays(PositionThreat), 2, FALSE).board)
          = to_arrays(ret.board)
    /\ score_by_closeness_to_win(from_arrays(PositionThreat)) = 132
    /\ score_by_closeness_to_win(ret.board) # 132


(***************************************************************************)
(* Properties of the board's representation                                *)
(***************************************************************************)
\* No column is higher than the board and no bit is set at or above the
\* height of its column.
NoBitAtOrAboveHeight(board) ==
    \A col \in Columns :
        /\ get_height(board, col) \in 0 .. BOARD_HEIGHT
        /\ board.column_bitmaps[col + 1] \in
              0 .. Pow(2, get_height(board, col)) - 1

\* The cells of column col of arrays, bottom first.
ColumnOf(arrays, col) ==
    [row \in 1 .. BOARD_HEIGHT |-> arrays[BOARD_HEIGHT + 1 - row][col + 1]]

RECURSIVE DropAll(_, _, _, _)
DropAll(board, col, cells, i) ==
    IF i > BOARD_HEIGHT THEN board
    ELSE LET filled == IF cells[i] = 0 THEN board
                       ELSE drop_piece(board, col, cells[i] = 2).board
         IN  IF filled.column_heights[col + 1] >= 0
             THEN DropAll(filled, col, cells, i + 1)
             ELSE board

\* The empty board after the pieces of arrays were dropped column by column,
\* the last column first.
RECURSIVE DroppedByColumns(_, _, _)
DroppedByColumns(arrays, col, board) ==
    IF col < 0 THEN board
    ELSE LET filled == DropAll(board, col, ColumnOf(arrays, col), 1)
         IN  IF filled.column_heights[col + 1] >= 0
             THEN DroppedByColumns(arrays, col - 1, filled)
             ELSE board

\* C34: a board made by drop_piece from the empty board has no column
\* higher than BOARD_HEIGHT and no bit set at or above the height of its
\* column, so a board with the same visible cells made by dropping the
\* pieces in another order is the same board and feeds the same bytes
\* to the hasher.
C34_BoardIsItsVisibleCells ==
    LET other == DroppedByColumns(to_arrays(ret.board), BOARD_WIDTH - 1,
                                  DefaultBoard)
    IN  /\ NoBitAtOrAboveHeight(ret.board)
        /\ to_arrays(other) = to_arrays(ret.board)
        /\ other = ret.board
        /\ normal_hash(other) = normal_hash(ret.board)
        /\ flipped_hash(other) = flipped_hash(ret.board)

\* A piece of the second player was dropped below the top of a higher
\* column on its right, which the drop by columns fills before it.
C34_Witness ==
    /\ ret.op = "drop_piece" /\ ret.ok /\ ret.color
    /\ ret.col < BOARD_WIDTH - 1
    /\ get_height(ret.board, ret.col) > 1
    /\ get_height(ret.board, ret.col) < get_height(ret.board, ret.col + 1)
    /\ ret.board.column_bitmaps[ret.col + 1]
          >= Pow(2, get_height(ret.board, ret.col) - 1)


(***************************************************************************)
(* The application (main.rs, user_interface/): the UI thread with its      *)
(* TurnManager and board, the engine worker (async_engine_process) with    *)
(* the manager, and the two channels between them.  app holds              *)
(*   to_engine, to_ui : the messages in flight, oldest first;              *)
(*   worker           : "try_recv" (top of the loop), "recv" (blocked in   *)
(*                      receiver.recv()), "done" (left the loop) or        *)
(*                      "panicked";                                        *)
(*   memory_usage, tree_complete : the worker's locals;                    *)
(*   ui               : "running", "closed" (the App was dropped) or the   *)
(*                      panic that ended the UI thread;                    *)
(*   players, stage, chosen_column, current_player, current_player_type,   *)
(*   move_scores, locked, heights, falling_piece : Settings, TurnManager,  *)
(*                      App and Board of the UI;                           *)
(*   sent             : the number of messages the client has sent.        *)
(* Of a message's payload the columns of move_scores and game_state are    *)
(* kept; tree_size is only displayed.  Time is an input of each step: the  *)
(* delay, the animations and the second between periodic updates may or    *)
(* may not have elapsed.  The floater's own position is not modelled.      *)
(***************************************************************************)
\* MAX_MEMORY_USAGE and GENERATED_NODES_PER_ITERATION scaled down to trees
\* of a few cells.
MAX_MEMORY_USAGE == 400

GENERATED_NODES_PER_ITERATION == 2

\* The periodic update is sent only while fewer than MaxToUi messages wait
\* for the UI, and a client other than the UI sends MaxSent messages.
MaxToUi == 1

MaxSent == 2

MakeMoveMessage(column) == [type |-> "MakeMove", column |-> column]

ResetGameMessage == [type |-> "ResetGame", column |-> 0]

RequestUpdateMessage == [type |-> "RequestUpdate", column |-> 0]

MoveReceipt(game_state, move_scores) ==
    [type |-> "MoveReceipt", game_state |-> game_state,
     move_scores |-> move_scores]

InvalidMove(error) ==
    [type |-> "InvalidMove", game_state |-> error, move_scores |-> {}]

UpdateMessage(move_scores) ==
    [type |-> "Update", game_state |-> "NoWin", move_scores |-> move_scores]

\* The worker's locals as the record its functions work on: the manager
\* (g, board_state), memory_usage, tree_complete, and out, the messages
\* given to sender.send() so far in this iteration.
Worker ==
    [g |-> G, board_state |-> board_state,
     memory_usage |-> app.memory_usage, tree_complete |-> app.tree_complete,
     out |-> << >>, num |-> 0]

\* The columns of manager.get_move_scores().
MoveColumns(w) == DOMAIN get_move_scores(w.g.h.nodes, w.board_state)

\* try_make_move that sends no receipt for a move that fails.
try_make_move_silent_on_failure(w, column) ==
    LET r == make_move(w.g, w.board_state, column)
        after == [w EXCEPT !.g = r.g]
    IN  IF r.result = "Ok"
        THEN [after EXCEPT
                !.memory_usage = calculate_size(r.g, w.board_state).memory,
                !.out = Append(@,
                    MoveReceipt(r.g.h.nodes[w.board_state].game_over,
                                MoveColumns(after)))]
        ELSE after

try_make_move(w, column) ==
    LET r == make_move(w.g, w.board_state, column)
        after == [w EXCEPT !.g = r.g]
    IN  IF r.result = "Ok"
        THEN [after EXCEPT
                !.memory_usage = calculate_size(r.g, w.board_state).memory,
                !.out = Append(@,
                    MoveReceipt(r.g.h.nodes[w.board_state].game_over,
                                MoveColumns(after)))]
        ELSE [after EXCEPT !.out = Append(@, InvalidMove(r.result))]

\* grow_tree that asks for states until the tree is complete.
grow_tree_to_the_end(w) ==
    LET r == try_generate_x_states(w.g, MaxAlloc * BOARD_WIDTH)
    IN  [w EXCEPT !.g = r.g,
                  !.tree_complete = TRUE,
                  !.memory_usage = calculate_size(r.g, w.board_state).memory,
                  !.num = r.num_generated]

grow_tree(w) ==
    LET r == try_generate_x_states(w.g, GENERATED_NODES_PER_ITERATION)
    IN  [w EXCEPT !.g = r.g,
                  !.tree_complete =
                      r.num_generated < GENERATED_NODES_PER_ITERATION,
                  !.memory_usage = calculate_size(r.g, w.board_state).memory,
                  !.num = r.num_generated]

send_update(w) ==
    [w EXCEPT !.memory_usage = calculate_size(w.g, w.board_state).memory,
              !.out = Append(@, UpdateMessage(MoveColumns(w)))]

\* The arm of the match for message.
handle_message(w, message) ==
    IF message.type = "MakeMove" THEN try_make_move(w, message.column)
    ELSE IF message.type = "ResetGame"
    THEN [w EXCEPT !.g = new_game.g, !.board_state = new_game.board_state,
                   !.memory_usage = 0, !.tree_complete = FALSE]
    ELSE send_update(w)

\* The end of an iteration: the periodic update, when more than a second
\* has passed since the last message sent.
periodic_update(w, elapsed) == IF elapsed THEN send_update(w) ELSE w

NoMessage == [type |-> "None", column |-> 0]

\* The UI thread has ended and dropped its ends of the channels.
UiGone == app.ui # "running"

\* The worker thread has ended and dropped its ends of the channels.
WorkerGone(a) == a.worker \in {"done", "panicked"}

\* The end of a step of the worker that leaves it at pc: the manager and the
\* locals are stored and the messages sent; sender.send(..).expect(..)
\* panics when the receiver is gone.
WorkerDone(w, pc, op, message, rest) ==
    /\ Store(w.g)
    /\ board_state' = w.board_state
    /\ app' = [app EXCEPT
                !.memory_usage = w.memory_usage,
                !.tree_complete = w.tree_complete,
                !.to_engine = rest,
                !.to_ui = IF UiGone THEN @ ELSE @ \o w.out,
                !.worker = IF w.g.h.panic # "none" \/ (UiGone /\ w.out # << >>)
                           THEN "panicked" ELSE pc]
    /\ ret' = [op |-> op, message |-> message, out |-> w.out, num |-> w.num]
    /\ UNCHANGED held

\* receiver.try_recv() or receiver.recv() returns a message: the arm of the
\* match, then the periodic update, for which no time has passed when the
\* arm has set time_since_last_update.
Receive(elapsed) ==
    /\ app.worker \in {"try_recv", "recv"}
    /\ app.to_engine # << >>
    /\ elapsed => /\ Len(app.to_ui) < MaxToUi
                  /\ Head(app.to_engine).type = "ResetGame"
    /\ WorkerDone(periodic_update(
                      handle_message(Worker, Head(app.to_engine)), elapsed),
                  "try_recv", "message", Head(app.to_engine),
                  Tail(app.to_engine))

\* try_recv() fails and the tree is as big as it may be: an update is sent
\* and the thread blocks in recv().
WaitForMessage ==
    /\ app.worker = "try_recv"
    /\ app.to_engine = << >>
    /\ app.memory_usage >= MAX_MEMORY_USAGE \/ app.tree_complete
    /\ WorkerDone(send_update(Worker), "recv", "wait", NoMessage, << >>)

\* try_recv() fails and the tree may grow: one batch, then the periodic
\* update.
GrowTree(elapsed) ==
    /\ app.worker = "try_recv"
    /\ app.to_engine = << >>
    /\ ~(app.memory_usage >= MAX_MEMORY_USAGE \/ app.tree_complete)
    /\ elapsed => Len(app.to_ui) < MaxToUi
    /\ WorkerDone(periodic_update(grow_tree(Worker), elapsed),
                  "try_recv", "grow", NoMessage, << >>)

\* recv() fails because the other side has disconnected: break.
Disconnected ==
    /\ app.worker = "recv"
    /\ app.to_engine = << >>
    /\ UiGone
    /\ app' = [app EXCEPT !.worker = "done"]
    /\ ret' = [op |-> "break", message |-> NoMessage, out |-> << >>, num |-> 0]
    /\ UNCHANGED <<nodes, table, alloc, panic, board_state, generation_1,
                   generation_2, generation_1_is_new, held>>

WorkerStep ==
    \/ \E elapsed \in BOOLEAN : Receive(elapsed)
    \/ WaitForMessage
    \/ \E elapsed \in BOOLEAN : GrowTree(elapsed)
    \/ Disconnected

\* ENABLED <<WorkerStep>>_vars: the thread runs unless it has ended or is
\* blocked in recv() on an empty channel whose sender lives.
WorkerStepEnabled ==
    \/ app.worker = "try_recv"
    \/ app.worker = "recv" /\ (app.to_engine # << >> \/ UiGone)

WorkerStepped == ret'.op \in {"message", "wait", "grow", "break"}

\* WF_vars(WorkerStep) with its ENABLED written out: the worker thread is
\* scheduled again and again.
WorkerIsScheduled ==
    []<>~WorkerStepEnabled \/ []<><<WorkerStepped>>_vars

(***************************************************************************)
(* The UI thread: TurnManager (turn_manager.rs), Board                     *)
(* (user_interface/board.rs) and App::update (main.rs), on the record a.   *)
(***************************************************************************)
UiPanic(a, what) == [a EXCEPT !.ui = what]

\* sender.send(message).expect(..)
Send(a, message) ==
    IF WorkerGone(a) THEN UiPanic(a, "send_failed")
    ELSE [a EXCEPT !.to_engine = Append(@, message)]

\* PieceState::reverse
reverse(player) == 3 - player

\* TurnManager::new
TurnManagerNew(players) ==
    [current_player |-> 1, current_player_type |-> players[1],
     stage |-> "WaitingForMoveReceipt"]

move_receipt(a, game_state) ==
    IF a.stage # "WaitingForMoveReceipt" THEN UiPanic(a, "move_receipt")
    ELSE IF game_state # "NoWin"
    THEN [a EXCEPT !.locked = TRUE, !.stage = "GameOver"]
    ELSE LET player == reverse(a.current_player)
             turn == [a EXCEPT !.current_player = player,
                               !.current_player_type = a.players[player]]
         IN  IF a.players[player] = "Human"
             THEN [turn EXCEPT !.locked = FALSE]
             ELSE [turn EXCEPT !.stage = "Delay"]

\* choose_computer_move: pick is the column the difficulty and the random
\* number generator lead to, one of the columns of move_scores.
choose_computer_move(a, move_scores, pick) ==
    IF move_scores = {} THEN UiPanic(a, "no_moves")
    ELSE [a EXCEPT !.stage = "AnimateToChosenColumn", !.chosen_column = pick]

\* TurnManager::update_received
update_received(a, move_scores, pick) ==
    IF a.stage = "WaitingForUpdate"
    THEN choose_computer_move(a, move_scores, pick)
    ELSE a

\* Board::drop_piece of the UI's board.
board_drop_piece(a, column) ==
    IF a.falling_piece THEN UiPanic(a, "already_falling")
    ELSE IF a.heights[column + 1] >= BOARD_HEIGHT
    THEN UiPanic(a, "full_column")
    ELSE [a EXCEPT !.heights[column + 1] = @ + 1, !.falling_piece = TRUE]

\* The match on the message of App::update.
receive_message(a, message, pick) ==
    IF message.type = "MoveReceipt"
    THEN move_receipt([a EXCEPT !.move_scores = message.move_scores],
                      message.game_state)
    ELSE IF message.type = "InvalidMove" THEN UiPanic(a, "invalid_move")
    ELSE update_received([a EXCEPT !.move_scores = message.move_scores],
                         message.move_scores, pick)

\* if let Ok(message) = self.receiver.try_recv()
try_recv(a, pick) ==
    IF a.to_ui = << >> THEN a
    ELSE receive_message([a EXCEPT !.to_ui = Tail(@)], Head(a.to_ui), pick)

\* send_chosen_move that stays in the stage AnimateToChosenColumn.
send_chosen_move_staying(a) ==
    IF a.ui # "running" THEN a
    ELSE Send(a, MakeMoveMessage(a.chosen_column))

\* The rest of AnimateToChosenColumn once the piece was dropped.
send_chosen_move(a) ==
    IF a.ui # "running" THEN a
    ELSE [Send(a, MakeMoveMessage(a.chosen_column))
            EXCEPT !.stage = "WaitingForMoveReceipt"]

\* TurnManager::process_turn; elapsed says that the delay has elapsed,
\* completed that the floater has reached the chosen column.
process_turn(a, elapsed, completed) ==
    IF a.ui # "running" THEN a
    ELSE IF a.stage = "Delay" /\ elapsed
    THEN [Send(a, RequestUpdateMessage) EXCEPT !.stage = "WaitingForUpdate"]
    ELSE IF a.stage = "AnimateToChosenColumn" /\ completed
    THEN send_chosen_move(board_drop_piece(a, a.chosen_column))
    ELSE a

NoClick == BOARD_WIDTH

\* The click on column of App::update.
clicked(a, column) ==
    LET dropped == board_drop_piece(a, column)
    IN  IF dropped.ui # "running" THEN dropped
        ELSE Send([dropped EXCEPT !.locked = TRUE], MakeMoveMessage(column))

\* render that leaves a locked board interactive.
render_while_locked(a, landed, click) ==
    IF a.ui # "running" THEN a
    ELSE LET shown == [a EXCEPT !.falling_piece = @ /\ ~landed]
         IN  IF /\ ~shown.falling_piece
                /\ click \in Columns
                /\ shown.heights[click + 1] < BOARD_HEIGHT
             THEN clicked(shown, click)
             ELSE shown

\* Board::render and the loop over its responses; landed says that the
\* falling piece has reached its row, click is the column clicked.
render(a, landed, click) ==
    IF a.ui # "running" THEN a
    ELSE LET shown == [a EXCEPT !.falling_piece = @ /\ ~landed]
         IN  IF /\ ~shown.locked /\ ~shown.falling_piece
                /\ click \in Columns
                /\ shown.heights[click + 1] < BOARD_HEIGHT
             THEN clicked(shown, click)
             ELSE shown

\* App::update, one frame.
update(a, pick, elapsed, completed, landed, click) ==
    render(process_turn(try_recv(a, pick), elapsed, completed), landed, click)

\* The messages a frame that made after of app has sent to the engine.
Sent(after) ==
    SubSeq(after.to_engine, Len(app.to_engine) + 1, Len(after.to_engine))

UpdateDone(after) ==
    /\ app' = after
    /\ ret' = [op |-> "update",
               message |-> IF app.to_ui = << >> THEN NoMessage
                           ELSE [type |-> Head(app.to_ui).type, column |-> 0],
               out |-> Sent(after), num |-> 0]
    /\ UNCHANGED <<nodes, table, alloc, panic, board_state, generation_1,
                   generation_2, generation_1_is_new, held>>

\* A frame of the UI thread.  pick matters only to an Update received while
\* waiting for one.
Update(pick, elapsed, completed, landed, click) ==
    /\ app.ui = "running"
    /\ \/ /\ app.to_ui # << >>
          /\ Head(app.to_ui).type = "Update"
          /\ app.stage = "WaitingForUpdate"
          /\ pick \in Head(app.to_ui).move_scores \cup
                         (IF Head(app.to_ui).move_scores = {} THEN {0} ELSE {})
       \/ /\ ~(/\ app.to_ui # << >>
               /\ Head(app.to_ui).type = "Update"
               /\ app.stage = "WaitingForUpdate")
          /\ pick = 0
    /\ UpdateDone(update(app, pick, elapsed, completed, landed, click))

\* The window is closed: the App is dropped with its ends of the channels.
Close ==
    /\ app.ui = "running"
    /\ app' = [app EXCEPT !.ui = "closed"]
    /\ ret' = [op |-> "close", message |-> NoMessage, out |-> << >>, num |-> 0]
    /\ UNCHANGED <<nodes, table, alloc, panic, board_state, generation_1,
                   generation_2, generation_1_is_new, held>>

PlayerTypes == {"Human", "Computer"}

\* App::new over the manager m the worker starts with; the UI's board shows
\* the manager's position.
AppNew(players, m) ==
    [to_engine |-> << >>, to_ui |-> << >>,
     worker |-> "try_recv", memory_usage |-> 0, tree_complete |-> FALSE,
     ui |-> "running", players |-> players,
     stage |-> TurnManagerNew(players).stage,
     chosen_column |-> 0,
     current_player |-> TurnManagerNew(players).current_player,
     current_player_type |-> TurnManagerNew(players).current_player_type,
     move_scores |-> {},
     locked |-> players[1] = "Computer",
     heights |-> m.g.h.nodes[m.board_state].board.column_heights,
     falling_piece |-> FALSE,
     sent |-> 0]

\* A position with two empty cells in each of the columns 0 and 6 in which
\* nobody can win any more.
PositionDraw ==
    <<  <<0, 2, 2, 1, 2, 2, 0>>,
        <<0, 1, 1, 2, 1, 2, 0>>,
        <<1, 2, 1, 1, 1, 2, 1>>,
        <<2, 1, 2, 2, 1, 1, 2>>,
        <<1, 1, 2, 1, 2, 2, 2>>,
        <<2, 1, 1, 2, 2, 1, 1>>  >>

\* The worker starts with a position whose tree is small.
AppManagers ==
    { start_from_position(PositionWinning, FALSE),
      start_from_position(PositionDraw, FALSE) }

InitManager(m) ==
    /\ nodes = m.g.h.nodes
    /\ table = m.g.h.table
    /\ alloc = m.g.h.alloc
    /\ panic = m.g.h.panic
    /\ generation_1 = m.g.generation_1
    /\ generation_2 = m.g.generation_2
    /\ generation_1_is_new = m.g.generation_1_is_new
    /\ board_state = m.board_state
    /\ held = {}

InitApp ==
    \E m \in AppManagers : \E first, second \in PlayerTypes :
        /\ InitManager(m)
        /\ app = AppNew(<<first, second>>, m)
        /\ ret = [op |-> "new", message |-> NoMessage, out |-> << >>, num |-> 0]

NextApp ==
    \/ WorkerStep
    \/ \E pick \in Columns : \E elapsed, completed, landed \in BOOLEAN :
          \E click \in Columns \cup {NoClick} :
             Update(pick, elapsed, completed, landed, click)
    \/ Close

\* A frame by which every timer has run out and in which nothing is clicked.
UpdateInTime == \E pick \in Columns : Update(pick, TRUE, TRUE, TRUE, NoClick)

\* Both threads are scheduled again and again, and the time the UI waits
\* for passes.
SpecApp ==
    InitApp /\ [][NextApp]_vars /\ WorkerIsScheduled /\ WF_vars(UpdateInTime)

(***************************************************************************)
(* The worker with a client other than the UI, which may send any message  *)
(* at any time.                                                            *)
(***************************************************************************)
ClientColumns == {0, 5, 6}

ClientMessages ==
    {MakeMoveMessage(column) : column \in ClientColumns}
        \cup {ResetGameMessage, RequestUpdateMessage}

ClientDone(op, message) ==
    /\ ret' = [op |-> op, message |-> message, out |-> << >>, num |-> 0]
    /\ UNCHANGED <<nodes, table, alloc, panic, board_state, generation_1,
                   generation_2, generation_1_is_new, held>>

\* sender.send(message)
ClientSend(message) ==
    /\ app.ui = "running"
    /\ ~WorkerGone(app)
    /\ app.sent < MaxSent
    /\ app' = [app EXCEPT !.to_engine = Append(@, message), !.sent = @ + 1]
    /\ ClientDone("send", message)

\* receiver.try_recv()
ClientReceive ==
    /\ app.ui = "running"
    /\ app.to_ui # << >>
    /\ app' = [app EXCEPT !.to_ui = Tail(@)]
    /\ ClientDone("receive", [type |-> Head(app.to_ui).type, column |-> 0])

InitWorker ==
    \E m \in AppManagers :
        /\ InitManager(m)
        /\ app = AppNew(<<"Human", "Human">>, m)
        /\ ret = [op |-> "new", message |-> NoMessage, out |-> << >>, num |-> 0]

NextWorker ==
    \/ WorkerStep
    \/ \E message \in ClientMessages : ClientSend(message)
    \/ ClientReceive
    \/ Close

SpecWorker == InitWorker /\ [][NextWorker]_vars /\ WorkerIsScheduled


(***************************************************************************)
(* Properties of the worker                                                *)
(***************************************************************************)
\* The answers to a MakeMove among the messages out.
Answers(out) ==
    SelectSeq(out, LAMBDA m : m.type \in {"MoveReceipt", "InvalidMove"})

\* The step handles the message at the head of the channel.
Handles(type) ==
    /\ ret'.op = "message"
    /\ ret'.message.type = type
    /\ ret'.message = Head(app.to_engine)
    /\ app'.to_engine = Tail(app.to_engine)

\* The board of the manager's position.
Position == nodes[board_state].board

\* C35: the worker answers every MakeMove with exactly one message, a
\* MoveReceipt when the move was made and an InvalidMove when it failed,
\* sent before the next message is handled; a move that failed is not
\* tried again and leaves the position as it was; no other message is
\* answered with a receipt.
C35_OneAnswerPerMakeMove ==
    [][/\ Handles("MakeMove") =>
            /\ Len(Answers(ret'.out)) = 1
            /\ ret'.out[1] = Answers(ret'.out)[1]
            /\ ~UiGone => app'.to_ui = app.to_ui \o ret'.out
            /\ ret'.out[1].type = "MoveReceipt" =>
                  \E color \in BOOLEAN :
                     Position' = drop_piece(Position, ret'.message.column,
                                            color).board
            /\ ret'.out[1].type = "InvalidMove" =>
                  /\ Position' = Position
                  /\ nodes'[board_state'].turn = nodes[board_state].turn
                  /\ \A i \in 1 .. Len(app'.to_engine) :
                        app'.to_engine[i] = app.to_engine[i + 1]
       /\ (ret'.op # "message" \/ ret'.message.type # "MakeMove") =>
            /\ ret'.out = << >> \/ Answers(ret'.out) = << >>
            /\ ret'.op \in {"grow", "wait", "break", "message"} =>
                   Position' = Position \/ ret'.message.type = "ResetGame"
      ]_vars

\* A move into a full column was refused after the root's children had to
\* be generated for it, and a valid move waits behind it in the channel.
C35_Witness ==
    /\ ret.op = "message" /\ ret.message.type = "MakeMove"
    /\ ret.out[1].type = "InvalidMove"
    /\ ret.out[1].game_state = "InvalidColumn"
    /\ Position.column_heights[ret.message.column + 1] = BOARD_HEIGHT
    /\ Len(nodes[board_state].children) > 0
    /\ app.memory_usage = 0
    /\ app.to_engine # << >>
    /\ app.to_engine[1].type = "MakeMove"


\* The tree may not grow any more.
TreeAsBigAsAllowed ==
    app.memory_usage >= MAX_MEMORY_USAGE \/ app.tree_complete

\* C36: a message sent to the worker is eventually handled while the UI
\* lives; between two polls of the channel the worker generates at most one
\* batch, of fewer than GENERATED_NODES_PER_ITERATION + BOARD_WIDTH states,
\* and it does so only when the channel is empty, memory usage is below the
\* cap and the tree is not complete; otherwise it sends one Update and waits
\* in recv(); once the UI side is closed the worker ends.
C36_MessagesAreProcessed ==
    /\ (app.to_engine # << >>) ~> (app.to_engine = << >> \/ UiGone)
    /\ UiGone ~> WorkerGone(app)
    /\ [][/\ ret'.op = "grow" =>
               /\ app.to_engine = << >>
               /\ ~TreeAsBigAsAllowed
               /\ ret'.num < GENERATED_NODES_PER_ITERATION + BOARD_WIDTH
               /\ app'.worker \in {"try_recv", "panicked"}
          /\ ret'.op = "wait" =>
               /\ app.to_engine = << >>
               /\ TreeAsBigAsAllowed
               /\ Len(ret'.out) = 1 /\ ret'.out[1].type = "Update"
               /\ nodes' = nodes
               /\ app'.worker \in {"recv", "panicked"}
          /\ (app.worker = "recv" /\ ret'.op \in {"message", "grow", "wait", "break"}) =>
               ret'.op \in {"message", "break"}
          /\ ret'.op = "break" => (UiGone /\ app'.worker = "done")
         ]_vars

\* The worker has grown the tree of a new game up to the cap, sent its
\* update and waits in recv() with nothing to do.
C36_Witness ==
    /\ app.worker = "recv"
    /\ ret.op = "wait"
    /\ app.memory_usage >= MAX_MEMORY_USAGE
    /\ ~app.tree_complete
    /\ Position = DefaultBoard
    /\ app.sent > 0


(***************************************************************************)
(* Properties of the application                                           *)
(***************************************************************************)
\* The messages of type in the channel.
InFlight(channel, type) == SelectSeq(channel, LAMBDA m : m.type = type)

\* C37: a MoveReceipt is in the channel to the UI only while the
\* TurnManager is in the stage WaitingForMoveReceipt, so move_receipt never
\* panics.
C37_ReceiptOnlyWhenAwaited ==
    /\ app.ui # "move_receipt"
    /\ InFlight(app.to_ui, "MoveReceipt") # << >> =>
          /\ app.stage = "WaitingForMoveReceipt"
          /\ Len(InFlight(app.to_ui, "MoveReceipt")) = 1
          /\ InFlight(app.to_engine, "MakeMove") = << >>

\* The receipt of a move the computer chose is on its way behind an update.
C37_Witness ==
    /\ app.ui = "running"
    /\ app.current_player_type = "Computer"
    /\ Len(app.to_ui) > 1
    /\ app.to_ui[1].type = "Update"
    /\ app.to_ui[2].type = "MoveReceipt"
    /\ app.stage = "WaitingForMoveReceipt"


\* C38: every MakeMove in the channel to the engine names a column of the
\* engine's position that is not full, in a game that is not over for the
\* engine nor for the UI, so the engine never answers InvalidMove and the
\* UI never panics on one.
C38_EveryMoveSentIsValid ==
    /\ app.ui # "invalid_move"
    /\ InFlight(app.to_ui, "InvalidMove") = << >>
    /\ \A i \in 1 .. Len(app.to_engine) :
          app.to_engine[i].type = "MakeMove" =>
             /\ app.to_engine[i].column \in Columns
             /\ get_height(Position, app.to_engine[i].column) < BOARD_HEIGHT
             /\ is_game_over(Position, nodes[board_state].turn) = "NoWin"
             /\ app.stage # "GameOver"

\* The computer answers a human's move: the column it chose is on its way
\* to the engine, whose position has full columns.
C38_Witness ==
    /\ app.players = <<"Human", "Computer">>
    /\ app.current_player_type = "Computer"
    /\ ret.op = "update"
    /\ ret.out = <<MakeMoveMessage(app.chosen_column)>>
    /\ app.to_engine = ret.out
    /\ get_height(Position, 3) = BOARD_HEIGHT
    /\ get_height(Position, app.chosen_column) = BOARD_HEIGHT - 1


\* C39: an Update that reaches the TurnManager in the stage
\* WaitingForUpdate has a move in its move_scores, so choose_computer_move
\* never panics.
C39_UpdateNamesAMove ==
    /\ app.ui # "no_moves"
    /\ (/\ app.ui = "running"
        /\ app.stage = "WaitingForUpdate"
        /\ app.to_ui # << >>
        /\ Head(app.to_ui).type = "Update")
          => Head(app.to_ui).move_scores # {}


\* It is the turn of a computer player in a game in progress: no move of
\* its is on the way to the engine and no receipt on the way back.
ComputerToMove ==
    /\ app.ui = "running"
    /\ app.current_player_type = "Computer"
    /\ app.stage # "GameOver"
    /\ is_game_over(Position, nodes[board_state].turn) = "NoWin"
    /\ InFlight(app.to_engine, "MakeMove") = << >>
    /\ InFlight(app.to_ui, "MoveReceipt") = << >>

\* The TurnManager has sent the computer's move in the last frame.
ComputerHasMoved ==
    /\ ret.op = "update"
    /\ InFlight(ret.out, "MakeMove") # << >>
    /\ app.current_player_type = "Computer"

=============================================================================
